---------------------------- MODULE Spec2Model ----------------------------
(***************************************************************************)
(* A model of the post-processing scripts of the BBC data-mining           *)
(* repository: the keyword-profile labeler (relabel_unknown_articles.py),  *)
(* the statistical classifier driver (label_unknown_with_classifier.py),   *)
(* the URL merger (merge_news_urls.py), the labelled-article merger       *)
(* (merge_labeled_unknown.py), the relabelling driver                      *)
(* (relabel_unknown_articles), the labelled-URL merger and the labelling   *)
(* drivers (merge_labeled_urls, label_news_urls and label_left_json of     *)
(* label_news_categories.py), the article scraper                          *)
(* (scrape_news_articles.py) and the crawl loop of the URL collectors      *)
(* (bbc_news_url_collector.py, bbc_sport_url_collector.py).                *)
(*                                                                         *)
(* Text is modelled at the level of characters.  A word is a sequence of   *)
(* one-character strings, a text is the sequence of its maximal runs of    *)
(* word characters (punctuation runs are tokens too, so that a non-empty   *)
(* text may hold no word).  Python's None and "" are both falsy and every  *)
(* branch of the code treats them alike; both are the empty sequence.      *)
(***************************************************************************)
EXTENDS Integers, Sequences, FiniteSets, TLC

VARIABLES
    \* ---- KeywordBasedLabeler (relabel_unknown_articles.py) ----
    category_keywords,  \* self.category_keywords: ordered dict category -> Counter
    category_profiles,  \* self.category_profiles: ordered dict category -> {kw: count}
    builds,             \* number of build_category_profiles calls on this labeler
    call,               \* the last call on the labeler and its arguments
    best_category,      \* the local best_category of the last classify call
    result,             \* what the last classify_by_keywords call returned
    \* ---- train_classifier (label_unknown_with_classifier.py) ----
    training_data,      \* the records of the training file
    train_pc,           \* "start", "fitted" or "error"
    fit_input,          \* indices of training_data passed to classifier.fit
    \* ---- merge_labeled_articles (merge_labeled_unknown.py) ----
    good_file,          \* good_categories.json
    labeled_file,       \* unknown_labeled.json
    backup_file,        \* the backup copy the last run made of good_categories.json
    output_file,        \* what the last run saved as its output file
    summary,            \* the merge summary of the last run
    merges,             \* number of merge runs
    \* ---- merge_and_label_urls / normalize_url (merge_news_urls.py) ----
    urls1, urls2,       \* the 'urls' arrays of the two input files
    merged_data,        \* the dictionary merge_and_label_urls returns
    urls_pc,            \* "start", or "returned" once merged_data is returned
    url_a, url_b,       \* two URLs handed to normalize_url
    key_a, key_b,       \* their normalized keys
    \* ---- relabel_unknown_articles (relabel_unknown_articles.py) ----
    input_path,         \* the articles of the file at input_file
    backup_path,        \* the checkpoint file input_file + '.backup'
    loaded,             \* the articles as load_labeled_urls returned them
    data,               \* data['articles'], changed in place by the loop
    params,             \* start_index, limit, checkpoint_interval, min_keywords
    known_articles,     \* indices of the articles taken as known
    unknown_articles,   \* indices of the articles taken as unknown
    relabel_pc,         \* the line the function is at
    pos,                \* the place of the loop in unknown_articles
    fetched,            \* the local result of the loop body
    classified,         \* indices for which fetch_and_classify returned a tuple
    progress,           \* processed_count, relabeled_count, checkpoints
    interrupted,        \* a KeyboardInterrupt was raised in the loop
    slept,              \* time.sleep(delay) has run since the last fetch
    \* ---- label_unknown_articles (label_unknown_with_classifier.py) ----
    classifier,         \* the pipeline train_classifier returned (its classes_)
    unknown_file,       \* the records of unknown.json
    probabilities,      \* the rows classifier.predict_proba returned
    labeled_output,     \* what was written to unknown_labeled.json
    label_pc,           \* "start", or "returned"
    \* ---- merge_labeled_urls (label_news_categories.py) ----
    existing_labeled,   \* existing_data, what load_existing_labeled_urls returned
    new_labeled,        \* the new_articles argument
    merged_labeled,     \* the merged_data written and returned
    labeled_pc,         \* "start", or "returned"
    \* ---- label_news_urls / label_left_json (label_news_categories.py) ----
    news_urls,          \* the URLs load_urls_from_file returned
    news_params,        \* start_index, limit, checkpoint_interval
    news_labeled,       \* labeled_articles, the local list of label_urls
    news_result,        \* labeled_articles, the local list of the driver
    news_checkpoints,   \* the article counts of the checkpoint files written
    news_output,        \* what was written to output_file
    news_pc,            \* "start", "loop", "returned" or "raised"
    \* ---- scrape_news_articles (scrape_news_articles.py) ----
    scrape_input,       \* data['articles'] of the input file
    scrape_params,      \* start_index, limit, checkpoint_interval
    scrape_articles,    \* articles, after the start_index and limit slices
    result_articles,    \* the objects scraped so far
    tally,              \* successful, failed
    checkpoint_files,   \* the checkpoint files written, in order
    scrape_output,      \* what was written to output_file
    scrape_at,          \* the place of the loop in articles
    scrape_pc,          \* "start", "loop", "returned" or "interrupted"
    \* ---- collect_urls_from_news / collect_urls_from_category ----
    collector,          \* "news" or "sport": which collector runs
    max_urls,           \* the max_urls argument
    article_urls,       \* the set of article URLs collected
    pages_to_check,     \* the queue of pages still to fetch
    pages_checked,      \* the pages ever put on the queue
    page_num,           \* the number of pages taken from the queue
    last_url_count_at_interval,       \* the recorded sample, -1 for None
    consecutive_unchanged_intervals,  \* the samples equal to it in a row
    pages_fetched,      \* the pages handed to get_page so far, in order
    soup_failed,        \* some get_page returned None
    samples,            \* len(article_urls) at each multiple of 10 pages
    crawl_pc            \* "start", "loop", or why the crawl ended

labelerVars ==
    <<category_keywords, category_profiles, builds, call, best_category, result>>
trainVars   == <<training_data, train_pc, fit_input>>
mergeVars   == <<good_file, labeled_file, backup_file, output_file, summary, merges>>
urlVars     == <<urls1, urls2, merged_data, urls_pc>>
normVars    == <<url_a, url_b, key_a, key_b>>
relabelVars ==
    <<input_path, backup_path, loaded, data, params, known_articles,
      unknown_articles, relabel_pc, pos, fetched, classified, progress,
      interrupted, slept>>
labelVars   == <<classifier, unknown_file, probabilities, labeled_output, label_pc>>
labeledUrlVars == <<existing_labeled, new_labeled, merged_labeled, labeled_pc>>
newsVars    ==
    <<news_urls, news_params, news_labeled, news_result, news_checkpoints,
      news_output, news_pc>>
scrapeVars  ==
    <<scrape_input, scrape_params, scrape_articles, result_articles, tally,
      checkpoint_files, scrape_output, scrape_at, scrape_pc>>
crawlVars   ==
    <<collector, max_urls, article_urls, pages_to_check, pages_checked,
      page_num, last_url_count_at_interval, consecutive_unchanged_intervals,
      pages_fetched, soup_failed, samples, crawl_pc>>
otherVars   == <<newsVars, scrapeVars, crawlVars>>
vars == <<labelerVars, trainVars, mergeVars, urlVars, normVars,
          relabelVars, labelVars, labeledUrlVars, otherVars>>

----------------------------------------------------------------------------
(* Characters and words *)

LowerLetters ==
    <<"a","b","c","d","e","f","g","h","i","j","k","l","m",
      "n","o","p","q","r","s","t","u","v","w","x","y","z">>

UpperLetters ==
    <<"A","B","C","D","E","F","G","H","I","J","K","L","M",
      "N","O","P","Q","R","S","T","U","V","W","X","Y","Z">>

LowerSet == {LowerLetters[i] : i \in 1..26}

\* str.lower() on one character
LowerChar(c) ==
    IF \E i \in 1..26 : UpperLetters[i] = c
    THEN LowerLetters[CHOOSE i \in 1..26 : UpperLetters[i] = c]
    ELSE c

\* str.lower() on a run of characters
LowerStr(s) == [i \in 1..Len(s) |-> LowerChar(s[i])]

\* text.lower(): the text is a sequence of tokens
LowerText(text) == [i \in 1..Len(text) |-> LowerStr(text[i])]

\* re.findall(r'\b[a-z]{3,}\b', ...): the tokens made of at least 3 letters a-z
IsWordMatch(tok) == Len(tok) >= 3 /\ \A i \in 1..Len(tok) : tok[i] \in LowerSet

FindAll(text) == SelectSeq(text, IsWordMatch)

stop_words == {
    <<"t","h","e">>, <<"a","n","d">>, <<"f","o","r">>, <<"a","r","e">>,
    <<"b","u","t">>, <<"n","o","t">>, <<"y","o","u">>, <<"a","l","l">>,
    <<"c","a","n">>, <<"h","e","r">>, <<"w","a","s">>, <<"o","n","e">>,
    <<"o","u","r">>, <<"o","u","t">>, <<"d","a","y">>, <<"g","e","t">>,
    <<"h","a","s">>, <<"h","i","m">>, <<"h","i","s">>, <<"h","o","w">>,
    <<"i","t","s">>, <<"m","a","y">>, <<"n","e","w">>, <<"n","o","w">>,
    <<"o","l","d">>, <<"s","e","e">>, <<"t","w","o">>, <<"w","a","y">>,
    <<"w","h","o">>, <<"b","o","y">>, <<"d","i","d">>,
    <<"l","e","t">>, <<"p","u","t">>, <<"s","a","y">>, <<"s","h","e">>,
    <<"t","o","o">>, <<"u","s","e">>, <<"b","b","c">>, <<"n","e","w","s">>,
    <<"s","a","i","d">>, <<"w","i","l","l">>, <<"t","h","i","s">>,
    <<"t","h","a","t">>, <<"w","i","t","h">>, <<"f","r","o","m">>,
    <<"h","a","v","e">>, <<"b","e","e","n">>, <<"m","o","r","e">>,
    <<"t","h","a","n">>, <<"t","h","e","i","r">>, <<"w","o","u","l","d">>,
    <<"t","h","e","r","e">>, <<"a","b","o","u","t">>,
    <<"w","h","i","c","h">>, <<"c","o","u","l","d">>,
    <<"o","t","h","e","r">> }

\* The keyword filter of the set comprehension (line 115)
IsKeyword(w) == w \notin stop_words /\ Len(w) > 3

\* KeywordBasedLabeler.extract_keywords_from_text
extract_keywords_from_text(text) ==
    IF text = <<>> THEN {}
    ELSE LET words == FindAll(LowerText(text))
         IN  {words[i] : i \in {j \in 1..Len(words) : IsKeyword(words[j])}}

----------------------------------------------------------------------------
(* Ordered dictionaries: a sequence of [key, val] in insertion order *)

Keys(d) == {d[i].key : i \in 1..Len(d)}

Get(d, k) == d[CHOOSE i \in 1..Len(d) : d[i].key = k].val

\* d[k] = v: an existing key keeps its place, a new key goes last
Put(d, k, v) ==
    IF k \in Keys(d)
    THEN [i \in 1..Len(d) |-> IF d[i].key = k THEN [key |-> k, val |-> v] ELSE d[i]]
    ELSE Append(d, [key |-> k, val |-> v])

----------------------------------------------------------------------------
(* Counter: keyword -> [count, pos].  pos is the keyword's place in the    *)
(* Counter's insertion order; the keywords one article inserts share a     *)
(* pos, because Python iterates the article's keyword set in hash order.   *)

EmptyCounter == [k \in {} |-> [count |-> 0, pos |-> 0]]

\* The pos of the keywords the next article inserts: larger than every pos
\* handed out before
NextPos(counter) == Cardinality(DOMAIN counter) + 1

\* for keyword in keywords: counter[keyword] += 1
CountKeywords(counter, keywords) ==
    LET nxt == NextPos(counter)
    IN  [k \in (DOMAIN counter) \cup keywords |->
            IF k \in DOMAIN counter
            THEN IF k \in keywords
                 THEN [count |-> counter[k].count + 1, pos |-> counter[k].pos]
                 ELSE counter[k]
            ELSE [count |-> 1, pos |-> nxt]]

----------------------------------------------------------------------------
(* KeywordBasedLabeler.build_category_profiles *)

TopN == 100
DefaultMinKeywords == 5

\* Lines 129-139: the keywords of the title, pooled with those of every
\* non-empty tag
TitleAndTagKeywords(article) ==
    extract_keywords_from_text(article.title)
    \cup UNION {extract_keywords_from_text(article.tags[i]) :
                    i \in {j \in 1..Len(article.tags) : article.tags[j] # <<>>}}

\* The tokens of the title and of the tags, lower-cased, in one sequence
RECURSIVE TagTokens(_, _)
TagTokens(tags, i) ==
    IF i > Len(tags) THEN <<>>
    ELSE LowerText(tags[i]) \o TagTokens(tags, i + 1)

PooledTokens(article) == LowerText(article.title) \o TagTokens(article.tags, 1)

\* CountArticle counting every occurrence of a keyword (a term frequency)
CountArticleByOccurrence(ck, article) ==
    LET category == article.category
    IN  IF category = "" \/ category = "unknown" THEN ck
        ELSE IF article.title = <<>> THEN ck
        ELSE LET keywords == TitleAndTagKeywords(article)
                 tokens   == PooledTokens(article)
                 counter  == IF category \in Keys(ck) THEN Get(ck, category)
                             ELSE EmptyCounter
                 nxt      == NextPos(counter)
             IN  IF keywords = {} THEN ck
                 ELSE Put(ck, category,
                        [k \in (DOMAIN counter) \cup keywords |->
                           [count |-> (IF k \in DOMAIN counter
                                       THEN counter[k].count ELSE 0)
                                      + Cardinality({i \in 1..Len(tokens) :
                                                       tokens[i] = k}),
                            pos |-> IF k \in DOMAIN counter
                                    THEN counter[k].pos ELSE nxt]])

\* Lines 124-143: the body of the loop over the articles.  A category
\* enters the defaultdict when its first keyword is counted.
CountArticle(ck, article) ==
    LET category == article.category
    IN  IF category = "" \/ category = "unknown" THEN ck
        ELSE IF article.title = <<>> THEN ck
        ELSE LET keywords == TitleAndTagKeywords(article)
                 counter  == IF category \in Keys(ck) THEN Get(ck, category)
                             ELSE EmptyCounter
             IN  IF keywords = {} THEN ck
                 ELSE Put(ck, category, CountKeywords(counter, keywords))

\* Line 123: for article in articles, over articles[lo..hi] in order.  The
\* range is halved and the dictionary handed in is evaluated first
\* (ck = ck), so that the evaluation of a long list stays shallow.
RECURSIVE CollectKeywords(_, _, _, _)
CollectKeywords(ck, articles, lo, hi) ==
    IF ck = ck /\ lo > hi THEN ck
    ELSE IF lo = hi THEN CountArticle(ck, articles[lo])
    ELSE LET mid == (lo + hi) \div 2
         IN  CollectKeywords(CollectKeywords(ck, articles, lo, mid),
                             articles, mid + 1, hi)

\* The items of a Counter, each with its place in the insertion order
Items(counter) ==
    {[kw |-> k, count |-> counter[k].count, pos |-> counter[k].pos] :
        k \in DOMAIN counter}

\* a comes before b in Counter.most_common: higher count first, and among
\* equal counts the keyword inserted first
Before(a, b) ==
    \/ a.count > b.count
    \/ a.count = b.count /\ a.pos < b.pos

\* The number of items that come before e, and of those that tie with e
\* (e included): same count, inserted by the same article
Rank(items, e) == Cardinality({f \in items : Before(f, e)})

Ties(items, e) ==
    Cardinality({f \in items : f.count = e.count /\ f.pos = e.pos})

\* The key sets most_common(n) can return for more than n items.  Keywords
\* of equal count that one article inserted come in either order, so when
\* such a group straddles the n-th place any part of it of the right size
\* is taken.
TopChoices(items, n) ==
    LET sure == {e \in items : Rank(items, e) + Ties(items, e) <= n}
        edge == {e \in items : /\ Rank(items, e) < n
                               /\ Rank(items, e) + Ties(items, e) > n}
    IN  { {e.kw : e \in sure \cup T} :
            T \in {S \in SUBSET edge : Cardinality(S) + Cardinality(sure) = n} }

\* Counter.most_common(n): the key sets it can return
MostCommonChoices(counter, n) ==
    IF Cardinality(DOMAIN counter) <= n THEN {DOMAIN counter}
    ELSE TopChoices(Items(counter), n)

\* TopKeywords with the threshold test off by one (count > min_keywords)
TopKeywordsAbove(counter, top, min_keywords) ==
    [kw \in {k \in top : counter[k].count > min_keywords} |-> counter[kw].count]

\* Lines 148-152: the dict comprehension over most_common(100)
TopKeywords(counter, top, min_keywords) ==
    [kw \in {k \in top : counter[k].count >= min_keywords} |-> counter[kw].count]

\* Lines 146-153: the loop over category_keywords.items(), from entry i on;
\* the set of profile maps it can leave
RECURSIVE BuildProfiles(_, _, _, _)
BuildProfiles(cp, ck, i, min_keywords) ==
    IF i > Len(ck) THEN {cp}
    ELSE UNION { BuildProfiles(
                     Put(cp, ck[i].key, TopKeywords(ck[i].val, top, min_keywords)),
                     ck, i + 1, min_keywords)
                 : top \in MostCommonChoices(ck[i].val, TopN) }

----------------------------------------------------------------------------
(* KeywordBasedLabeler.classify_by_keywords *)

NoneResult == [ret |-> "None", category |-> "", confidence |-> [num |-> 0, den |-> 1]]

NoBest == [category |-> "", matches |-> 0,
           confidence |-> [num |-> 0, den |-> 1], weighted_score |-> 0]

\* Lines 168-174
AllKeywords(title, tags) ==
    extract_keywords_from_text(title)
    \cup UNION {extract_keywords_from_text(tags[i]) : i \in 1..Len(tags)}

RECURSIVE SumCounts(_, _)
SumCounts(profile_keywords, kws) ==
    IF kws = {} THEN 0
    ELSE LET kw == CHOOSE k \in kws : TRUE
         IN  profile_keywords[kw] + SumCounts(profile_keywords, kws \ {kw})

\* CategoryScores with the confidence taken over the keyword counts
\* (weighted_score / size of the profile) instead of the matches
RECURSIVE CategoryScoresByCount(_, _, _)
CategoryScoresByCount(cp, all_keywords, i) ==
    IF i > Len(cp) THEN <<>>
    ELSE LET profile_keywords == cp[i].val
             rest     == CategoryScoresByCount(cp, all_keywords, i + 1)
             matching == {kw \in all_keywords : kw \in DOMAIN profile_keywords}
             matches  == Cardinality(matching)
         IN  IF DOMAIN profile_keywords = {} THEN rest
             ELSE IF matches > 0
             THEN <<[category |-> cp[i].key,
                     matches |-> matches,
                     confidence |-> [num |-> SumCounts(profile_keywords, matching),
                                     den |-> Cardinality(DOMAIN profile_keywords)],
                     weighted_score |-> SumCounts(profile_keywords, matching)]>>
                  \o rest
             ELSE rest

\* Lines 181-196: category_scores, in the order of category_profiles
RECURSIVE CategoryScores(_, _, _)
CategoryScores(cp, all_keywords, i) ==
    IF i > Len(cp) THEN <<>>
    ELSE LET profile_keywords == cp[i].val
             rest     == CategoryScores(cp, all_keywords, i + 1)
             matching == {kw \in all_keywords : kw \in DOMAIN profile_keywords}
             matches  == Cardinality(matching)
         IN  IF DOMAIN profile_keywords = {} THEN rest
             ELSE IF matches > 0
             THEN <<[category |-> cp[i].key,
                     matches |-> matches,
                     confidence |-> [num |-> matches,
                                     den |-> Cardinality(DOMAIN profile_keywords)],
                     weighted_score |-> SumCounts(profile_keywords, matching)]>>
                  \o rest
             ELSE rest

\* MaxByWeightedScore keeping the last maximum instead of the first
RECURSIVE MaxKeepingLast(_, _, _)
MaxKeepingLast(scores, i, b) ==
    IF i > Len(scores) THEN scores[b]
    ELSE MaxKeepingLast(scores, i + 1,
             IF scores[i].weighted_score >= scores[b].weighted_score THEN i ELSE b)

\* MaxByWeightedScore preferring the categories that pass the acceptance
\* test of line 206
RECURSIVE MaxAmongAccepted(_, _, _)
MaxAmongAccepted(scores, i, b) ==
    LET ok(k) == /\ scores[k].matches >= 2
                 /\ 10 * scores[k].confidence.num > scores[k].confidence.den
    IN  IF i > Len(scores) THEN scores[b]
        ELSE MaxAmongAccepted(scores, i + 1,
                 IF \/ ok(i) /\ ~ok(b)
                    \/ /\ ok(i) <=> ok(b)
                       /\ scores[i].weighted_score > scores[b].weighted_score
                 THEN i ELSE b)

\* Line 202: max(category_scores.items(), key=...) keeps the first maximum
RECURSIVE MaxByWeightedScore(_, _, _)
MaxByWeightedScore(scores, i, b) ==
    IF i > Len(scores) THEN scores[b]
    ELSE MaxByWeightedScore(scores, i + 1,
             IF scores[i].weighted_score > scores[b].weighted_score THEN i ELSE b)

\* Accepts with the confidence test weakened to >= 0.1
AcceptsAtTenPercent(best) ==
    /\ best.matches >= 2
    /\ 10 * best.confidence.num >= best.confidence.den

\* Line 206: matches >= 2 and confidence > 0.1
Accepts(best) ==
    /\ best.matches >= 2
    /\ 10 * best.confidence.num > best.confidence.den

\* BestCategory keeping the best category of the call before
BestCategoryRemembering(cp, title, tags) ==
    IF best_category # NoBest THEN best_category
    ELSE IF title = <<>> THEN NoBest
    ELSE LET all_keywords == AllKeywords(title, tags)
             scores == CategoryScores(cp, all_keywords, 1)
         IN  IF all_keywords = {} \/ scores = <<>> THEN NoBest
             ELSE MaxByWeightedScore(scores, 2, 1)

\* The local best_category of a call, NoBest when the call returns earlier
BestCategory(cp, title, tags) ==
    IF title = <<>> THEN NoBest
    ELSE LET all_keywords == AllKeywords(title, tags)
             scores == CategoryScores(cp, all_keywords, 1)
         IN  IF all_keywords = {} \/ scores = <<>> THEN NoBest
             ELSE MaxByWeightedScore(scores, 2, 1)

\* Lines 205-209: the value returned for the best category
ResultOf(best) ==
    IF best = NoBest THEN NoneResult
    ELSE IF Accepts(best)
    THEN [ret |-> "tuple", category |-> best.category,
          confidence |-> best.confidence]
    ELSE NoneResult

\* classify_by_keywords(title, tags) with the profiles cp
ClassifyResult(cp, title, tags) == ResultOf(BestCategory(cp, title, tags))

----------------------------------------------------------------------------
(* The inputs of the labeler *)

MaxArticles == 2
MaxRun == 100
MaxBuilds == 2

w_goal   == <<"g","o","a","l">>
w_Goal   == <<"G","o","a","l">>
w_team   == <<"t","e","a","m">>
w_match  == <<"m","a","t","c","h">>
w_bank   == <<"b","a","n","k">>
w_market == <<"m","a","r","k","e","t">>
w_the    == <<"t","h","e">>
w_cat    == <<"c","a","t">>
w_year   == <<"2","0","2","5">>
w_bang   == <<"!">>

\* kwaa, kwab, ...: one distinct keyword for each i
Filler(i) == <<"k", "w", LowerLetters[(i \div 26) + 1], LowerLetters[(i % 26) + 1]>>

ArticleKinds == {
    [category |-> "sport", title |-> <<w_Goal, w_team>>, tags |-> <<>>],
    [category |-> "sport", title |-> <<w_goal, w_goal, w_the, w_cat>>,
        tags |-> << <<w_team, w_match>>, <<>> >>],
    [category |-> "business", title |-> <<w_bang, w_year>>,
        tags |-> << <<w_bank, w_market>>, <<w_goal>> >>],
    [category |-> "unknown", title |-> <<w_goal, w_bank>>, tags |-> <<>>],
    [category |-> "sport", title |-> <<>>, tags |-> << <<w_team>> >>],
    [category |-> "", title |-> <<w_bank>>, tags |-> <<>>] }

\* n sport articles, the i-th titled "goal <i-th filler>"
Run(n) == [i \in 1..n |->
              [category |-> "sport", title |-> <<w_goal, Filler(i)>>, tags |-> <<>>]]

Lists(S, n) == UNION {[1..m -> S] : m \in 0..n}

ArticleLists ==
    Lists(ArticleKinds, MaxArticles)
    \cup UNION { {Run(n) \o s, s \o Run(n)} :
                   n \in {MaxRun - 2, MaxRun}, s \in Lists(ArticleKinds, 1) }

MinKeywordsChoices == {1, DefaultMinKeywords}

\* the first n fillers as a title
FillerTitle(n) == [i \in 1..n |-> Filler(i)]

ClassifyTitles == {
    <<>>,
    <<w_the, w_cat, w_bang>>,
    <<w_goal, w_team>>,
    <<w_team, w_bank>>,
    <<w_Goal, w_bank, w_market>>,
    FillerTitle(10),
    FillerTitle(11) }

ClassifyTags == { <<>>, << <<>>, <<w_team, w_bank>> >> }

NoCall == [op |-> "init", articles |-> <<>>, min_keywords |-> 0,
           title |-> <<>>, tags |-> <<>>]

----------------------------------------------------------------------------
(* The labeler's operations *)

\* KeywordBasedLabeler.__init__
NewLabeler ==
    /\ builds > 0
    /\ category_keywords' = <<>>
    /\ category_profiles' = <<>>
    /\ builds' = 0
    /\ call' = NoCall
    /\ best_category' = NoBest
    /\ result' = NoneResult
    /\ UNCHANGED <<trainVars, mergeVars, urlVars, normVars>>
    /\ UNCHANGED <<relabelVars, labelVars, labeledUrlVars, otherVars>>

\* build_category_profiles(articles, min_keywords) on the labeler as it is
BuildWith(articles, min_keywords) ==
    /\ \E ck \in {CollectKeywords(category_keywords, articles, 1, Len(articles))} :
        /\ category_keywords' = ck
        /\ category_profiles' \in
               BuildProfiles(category_profiles, ck, 1, min_keywords)
    /\ call' = [NoCall EXCEPT !.op = "build", !.articles = articles,
                              !.min_keywords = min_keywords]
    /\ builds' = builds + 1
    /\ best_category' = NoBest
    /\ result' = NoneResult
    /\ UNCHANGED <<trainVars, mergeVars, urlVars, normVars>>
    /\ UNCHANGED <<relabelVars, labelVars, labeledUrlVars, otherVars>>

\* The call relabel_unknown_articles makes on the labeler it has just
\* constructed (lines 303-308)
BuildCategoryProfiles ==
    /\ builds = 0
    /\ \E articles \in ArticleLists, min_keywords \in MinKeywordsChoices :
        BuildWith(articles, min_keywords)

\* A further call of build_category_profiles on the same labeler
RebuildCategoryProfiles ==
    /\ builds > 0
    /\ builds < MaxBuilds
    /\ \E articles \in Lists(ArticleKinds, MaxArticles),
          min_keywords \in MinKeywordsChoices :
        BuildWith(articles, min_keywords)

ClassifyByKeywords ==
    /\ builds > 0
    /\ \E title \in ClassifyTitles, tags \in ClassifyTags :
        /\ \E best \in {BestCategory(category_profiles, title, tags)} :
            /\ best_category' = best
            /\ result' = ResultOf(best)
        /\ call' = [NoCall EXCEPT !.op = "classify", !.title = title, !.tags = tags]
    /\ UNCHANGED <<category_keywords, category_profiles, builds>>
    /\ UNCHANGED <<trainVars, mergeVars, urlVars, normVars>>
    /\ UNCHANGED <<relabelVars, labelVars, labeledUrlVars, otherVars>>

InitLabeler ==
    /\ category_keywords = <<>>
    /\ category_profiles = <<>>
    /\ builds = 0
    /\ call = NoCall
    /\ best_category = NoBest
    /\ result = NoneResult

\* The other scripts have not run
NoSummary == [original_count |-> 0, added_count |-> 0, total_count |-> 0,
              min_confidence_threshold |-> 0, filtered_out_count |-> 0]

NoMergedData == [total_urls |-> 0, duplicates_removed |-> 0,
                 articles |-> <<>>, category_counts |-> <<>>]

NoUrl == [scheme |-> <<>>, www |-> <<>>, host |-> <<>>, path |-> <<>>, slashes |-> 0]

IdleTrain == training_data = <<>> /\ train_pc = "start" /\ fit_input = {}

IdleMerge ==
    /\ good_file = <<>> /\ labeled_file = <<>> /\ backup_file = <<>>
    /\ output_file = <<>> /\ summary = NoSummary /\ merges = 0

IdleUrls ==
    urls1 = <<>> /\ urls2 = <<>> /\ merged_data = NoMergedData /\ urls_pc = "start"

IdleNormalize == url_a = NoUrl /\ url_b = NoUrl /\ key_a = <<>> /\ key_b = <<>>

NoFile == [exists |-> FALSE, articles |-> <<>>]

NoParams == [start_index |-> 0, limited |-> FALSE, limit |-> 0,
             checkpoint_interval |-> 1, min_keywords |-> 1]

NoProgress == [processed_count |-> 0, relabeled_count |-> 0, checkpoints |-> 0]

IdleRelabel ==
    /\ input_path = NoFile /\ backup_path = NoFile
    /\ loaded = <<>> /\ data = <<>> /\ params = NoParams
    /\ known_articles = <<>> /\ unknown_articles = <<>>
    /\ relabel_pc = "start" /\ pos = 0 /\ fetched = NoneResult
    /\ classified = {} /\ progress = NoProgress /\ interrupted = FALSE
    /\ slept = FALSE

NoClassifier == [fitted |-> FALSE, classes_ |-> <<>>]

IdleLabel ==
    /\ classifier = NoClassifier /\ unknown_file = <<>>
    /\ probabilities = <<>>
    /\ labeled_output = NoFile /\ label_pc = "start"

IdleLabeledUrls ==
    /\ existing_labeled = NoFile /\ new_labeled = <<>>
    /\ merged_labeled = NoFile /\ labeled_pc = "start"

NoNewsParams ==
    [start_index |-> 0, limited |-> FALSE, limit |-> 0, checkpoint_interval |-> 1]

IdleNews ==
    /\ news_urls = <<>> /\ news_params = NoNewsParams
    /\ news_labeled = <<>> /\ news_result = <<>>
    /\ news_checkpoints = <<>>
    /\ news_output = NoFile /\ news_pc = "start"

NoTally == [successful |-> 0, failed |-> 0]

IdleScrape ==
    /\ scrape_input = <<>> /\ scrape_params = NoNewsParams
    /\ scrape_articles = <<>> /\ result_articles = <<>>
    /\ tally = NoTally /\ checkpoint_files = <<>>
    /\ scrape_output = NoFile /\ scrape_at = 0 /\ scrape_pc = "start"

IdleCrawl ==
    /\ collector = "news" /\ max_urls = 0
    /\ article_urls = {} /\ pages_to_check = <<>> /\ pages_checked = {}
    /\ page_num = 0
    /\ last_url_count_at_interval = -1
    /\ consecutive_unchanged_intervals = 0
    /\ pages_fetched = <<>> /\ soup_failed = FALSE /\ samples = <<>>
    /\ crawl_pc = "start"

IdleOther == IdleNews /\ IdleScrape /\ IdleCrawl

IdleLater == IdleRelabel /\ IdleLabel /\ IdleLabeledUrls /\ IdleOther

Init ==
    InitLabeler /\ IdleTrain /\ IdleMerge /\ IdleUrls /\ IdleNormalize /\ IdleLater

Next == NewLabeler \/ BuildCategoryProfiles \/ ClassifyByKeywords

Spec == Init /\ [][Next]_vars

NextRebuild == NewLabeler \/ BuildCategoryProfiles \/ RebuildCategoryProfiles

SpecRebuild == Init /\ [][NextRebuild]_vars

----------------------------------------------------------------------------
(* Properties of classify_by_keywords *)

\* The keywords of the last classify call, and for a category of the
\* profile map the number of them its profile holds
CallKeywords == AllKeywords(call.title, call.tags)

MatchesIn(c) == Cardinality(CallKeywords \cap DOMAIN Get(category_profiles, c))

ProfileSize(c) == Cardinality(DOMAIN Get(category_profiles, c))

\* The sum of the profile's counts over the call's keywords it holds
WeightedScoreIn(c) ==
    Cardinality({<<kw, u>> \in CallKeywords \X (1..(MaxRun + MaxArticles + 2)) :
                    /\ kw \in DOMAIN Get(category_profiles, c)
                    /\ u <= Get(category_profiles, c)[kw]})

\* The categories with at least one matching keyword
Candidates == {c \in Keys(category_profiles) : MatchesIn(c) > 0}

\* C1: classify_by_keywords returns (category, confidence) only when the
\* selected category has matches >= 2 and confidence > 0.1, with
\* confidence = matches / size of that profile; in every other case (no
\* title, no keyword, no category with a match, matches < 2,
\* confidence <= 0.1) it returns None, and it never raises.
C1_AcceptanceThreshold ==
    call.op = "classify" =>
        /\ result.ret \in {"None", "tuple"}
        /\ result.ret = "tuple" =>
            /\ result.category = best_category.category
            /\ result.category \in Keys(category_profiles)
            /\ MatchesIn(result.category) >= 2
            /\ 10 * MatchesIn(result.category) > ProfileSize(result.category)
            /\ result.confidence.num * ProfileSize(result.category)
                   = MatchesIn(result.category) * result.confidence.den
        /\ result.ret = "None" <=>
            \/ call.title = <<>>
            \/ CallKeywords = {}
            \/ Candidates = {}
            \/ MatchesIn(best_category.category) < 2
            \/ 10 * MatchesIn(best_category.category)
                   <= ProfileSize(best_category.category)

\* A call accepted just above the confidence threshold (11 matches in a
\* profile of 100 keywords)
C1_Witness ==
    /\ call.op = "classify"
    /\ result.ret = "tuple"
    /\ 100 * result.confidence.num = 11 * result.confidence.den

\* C16: every confidence classify_by_keywords returns lies between 0 and 1:
\* it is the number of the call's keywords found in the selected profile
\* over the size of that profile, and the former never exceeds the latter.
C16_KeywordConfidenceWithinUnit ==
    (call.op = "classify" /\ result.ret = "tuple") =>
        /\ result.confidence.den > 0
        /\ 0 <= result.confidence.num
        /\ result.confidence.num <= result.confidence.den
        /\ MatchesIn(result.category) <= ProfileSize(result.category)

\* A call accepted with every keyword of the selected profile matched
\* (confidence 1), the profile holding a keyword counted more than once
C16_Witness ==
    /\ call.op = "classify"
    /\ result.ret = "tuple"
    /\ result.confidence.num = result.confidence.den
    /\ \E kw \in DOMAIN Get(category_profiles, result.category) :
           Get(category_profiles, result.category)[kw] > 1

\* The place of a category in the profile map
PlaceOf(c) == CHOOSE i \in 1..Len(category_profiles) : category_profiles[i].key = c

\* C5: among the categories with at least one matching keyword the call
\* selects the one with the highest weighted_score (the sum of the profile's
\* counts over the matching keywords), and on an exact tie the one
\* enumerated first in the profile map.
C5_HighestWeightedScoreFirst ==
    (call.op = "classify" /\ call.title # <<>> /\ Candidates # {}) =>
        /\ best_category.category \in Candidates
        /\ best_category.weighted_score = WeightedScoreIn(best_category.category)
        /\ \A c \in Candidates :
            \/ WeightedScoreIn(c) < WeightedScoreIn(best_category.category)
            \/ /\ WeightedScoreIn(c) = WeightedScoreIn(best_category.category)
               /\ PlaceOf(best_category.category) <= PlaceOf(c)

\* Two categories tie on the highest weighted_score
C5_Witness ==
    /\ call.op = "classify"
    /\ call.title # <<>>
    /\ \E c, d \in Candidates :
        /\ c # d
        /\ best_category.category = c
        /\ WeightedScoreIn(c) = WeightedScoreIn(d)

\* What a call returns when it depends on the profiles and on its
\* arguments only
OneShotResult(cp, title, tags) ==
    IF title = <<>> THEN NoneResult
    ELSE LET all_keywords == AllKeywords(title, tags)
             scores == CategoryScores(cp, all_keywords, 1)
         IN  IF all_keywords = {} \/ scores = <<>> THEN NoneResult
             ELSE ResultOf(MaxByWeightedScore(scores, 2, 1))

\* C21: classify_by_keywords retains no state between calls: a call leaves
\* category_profiles and category_keywords as they were, and what it
\* returns depends on the profiles and on its title and tags only, so the
\* same input gives the same result after any sequence of calls.
C21_ClassifyRetainsNoState ==
    [][call'.op = "classify" =>
          /\ category_profiles' = category_profiles
          /\ category_keywords' = category_keywords
          /\ result' = OneShotResult(category_profiles, call'.title, call'.tags)]_vars

\* A call that returned None right after a call that had returned a tuple
\* on the same profiles is not visible in one state; the state shown is a
\* call returning None on a labeler whose profiles would accept another
\* title
C21_Witness ==
    /\ call.op = "classify"
    /\ result.ret = "None"
    /\ call.title # <<>>
    /\ \E title \in ClassifyTitles :
           OneShotResult(category_profiles, title, <<>>).ret = "tuple"

\* The category passes the acceptance test of line 206
Acceptable(c) == MatchesIn(c) >= 2 /\ 10 * MatchesIn(c) > ProfileSize(c)

\* C28: the acceptance test is applied to the category of highest
\* weighted_score only: when that category fails matches >= 2 or
\* confidence > 0.1 the call returns None, even if a category of lower
\* weighted_score passes both, and no category other than the top-weighted
\* one is ever returned.
C28_OnlyTopWeightedCategoryTested ==
    (call.op = "classify" /\ call.title # <<>> /\ Candidates # {}) =>
        /\ \A c \in Candidates :
              WeightedScoreIn(c) <= WeightedScoreIn(best_category.category)
        /\ ~Acceptable(best_category.category) => result.ret = "None"
        /\ result.ret = "tuple" =>
              /\ result.category = best_category.category
              /\ \A c \in Candidates :
                    WeightedScoreIn(c) <= WeightedScoreIn(result.category)

\* The top-weighted category fails the test, a category of lower
\* weighted_score passes it, and the call returns None
C28_Witness ==
    /\ call.op = "classify"
    /\ call.title # <<>>
    /\ result.ret = "None"
    /\ best_category.category \in Candidates
    /\ ~Acceptable(best_category.category)
    /\ \E c \in Candidates :
           /\ Acceptable(c)
           /\ WeightedScoreIn(c) < WeightedScoreIn(best_category.category)

----------------------------------------------------------------------------
(* Properties of build_category_profiles *)

\* The Counter of a category, empty when the category has none
CounterOf(c) ==
    IF c \in Keys(category_keywords) THEN Get(category_keywords, c)
    ELSE EmptyCounter

\* The count category_keywords holds for keyword k in category c
CountOf(c, k) ==
    IF k \in DOMAIN CounterOf(c) THEN CounterOf(c)[k].count ELSE 0

\* The keywords among the pooled tokens of an article's title and tags
PooledKeywords(article) ==
    LET tokens == PooledTokens(article)
    IN  {tokens[i] : i \in {j \in 1..Len(tokens) :
                               IsWordMatch(tokens[j]) /\ IsKeyword(tokens[j])}}

\* The labelled articles of the last build call
Labelled(articles) ==
    {i \in 1..Len(articles) : articles[i].category \notin {"", "unknown"}}

BuiltCategories ==
    Keys(category_keywords)
    \cup {call.articles[i].category : i \in Labelled(call.articles)}

BuiltKeywords ==
    UNION {DOMAIN category_keywords[i].val : i \in 1..Len(category_keywords)}
    \cup UNION {PooledKeywords(call.articles[i]) : i \in 1..Len(call.articles)}

FreshBuild == call.op = "build" /\ builds = 1

\* C6: after build_category_profiles on a fresh labeler every category's
\* profile holds exactly the keywords that are among the category's 100
\* highest-count keywords and have count >= min_keywords, each mapped to its
\* count; so never more than 100 keywords and none below min_keywords.
\* (Where equal counts straddle the 100th place, any 100 highest-count
\* keywords are "the 100 highest".)
C6_TopHundredAboveMinimum ==
    FreshBuild =>
        /\ Keys(category_profiles) = Keys(category_keywords)
        /\ \A c \in Keys(category_keywords) :
            LET items   == Items(Get(category_keywords, c))
                profile == Get(category_profiles, c)
                kept    == {e \in items : e.kw \in DOMAIN profile}
                Above(e)   == Cardinality({f \in items : f.count > e.count})
                AtLeast(e) == Cardinality({f \in items : f.count >= e.count})
            IN  /\ Cardinality(kept) = Cardinality(DOMAIN profile)
                /\ Cardinality(DOMAIN profile) <= TopN
                /\ \A e \in kept :
                    /\ profile[e.kw] = e.count
                    /\ e.count >= call.min_keywords
                    /\ Above(e) < TopN
                /\ \A e \in items \ kept :
                    \/ e.count < call.min_keywords
                    \/ /\ AtLeast(e) > TopN
                       /\ Cardinality({f \in kept : f.count >= e.count}) = TopN

\* A category with more than 100 keywords whose profile holds exactly 100,
\* the keyword left out reaching the threshold as well
C6_Witness ==
    /\ FreshBuild
    /\ \E c \in Keys(category_keywords) :
        /\ Cardinality(DOMAIN Get(category_keywords, c)) > TopN
        /\ Cardinality(DOMAIN Get(category_profiles, c)) = TopN
        /\ \E k \in DOMAIN Get(category_keywords, c) :
            /\ k \notin DOMAIN Get(category_profiles, c)
            /\ CountOf(c, k) >= call.min_keywords

\* C7 as stated: the count of a keyword in a category is the number of
\* labelled articles of the category whose pooled title and tags hold the
\* keyword at least once.
C7_DocumentFrequencyOfEveryArticle ==
    FreshBuild =>
        \A c \in BuiltCategories, k \in BuiltKeywords :
            CountOf(c, k) =
                Cardinality({i \in Labelled(call.articles) :
                                /\ call.articles[i].category = c
                                /\ k \in PooledKeywords(call.articles[i])})

\* C7, for the articles that have a title: the count of a keyword in a
\* category is the number of labelled articles of the category with a
\* non-empty title whose pooled title and tags hold the keyword at least
\* once (each such article adds exactly 1, however often the keyword
\* occurs); an article without a title adds nothing.
C7_DocumentFrequencyOfTitledArticles ==
    FreshBuild =>
        \A c \in BuiltCategories, k \in BuiltKeywords :
            CountOf(c, k) =
                Cardinality({i \in Labelled(call.articles) :
                                /\ call.articles[i].category = c
                                /\ call.articles[i].title # <<>>
                                /\ k \in PooledKeywords(call.articles[i])})

\* An article whose title holds a keyword twice, counted once
C7_Witness ==
    /\ FreshBuild
    /\ \E i \in Labelled(call.articles) :
        LET tokens == PooledTokens(call.articles[i])
        IN  \E k \in PooledKeywords(call.articles[i]) :
            /\ call.articles[i].title # <<>>
            /\ Cardinality({j \in 1..Len(tokens) : tokens[j] = k}) >= 2
            /\ CountOf(call.articles[i].category, k) = 1

\* C4: after a second build_category_profiles on the same labeler the
\* profiles are those a fresh labeler builds from the second call's
\* articles alone.
C4_RebuildReplacesWholesale ==
    (call.op = "build" /\ builds = 2) =>
        category_profiles \in
            BuildProfiles(<<>>,
                          CollectKeywords(<<>>, call.articles, 1, Len(call.articles)),
                          1, call.min_keywords)

----------------------------------------------------------------------------
(* train_classifier (label_unknown_with_classifier.py).  The split and the *)
(* pipeline are scikit-learn's; they are modelled by what they do to the   *)
(* records: which of them reach classifier.fit, and when they raise.       *)

MaxTrain == 6

\* The classes of the labels and the number of records of each
Classes(labels) == {labels[i] : i \in 1..Len(labels)}

ClassIndices(labels, c) == {i \in 1..Len(labels) : labels[i] = c}

ClassCounts(labels) ==
    [c \in Classes(labels) |-> Cardinality(ClassIndices(labels, c))]

RECURSIVE SumOver(_, _)
SumOver(f, S) ==
    IF S = {} THEN 0
    ELSE LET x == CHOOSE y \in S : TRUE IN f[x] + SumOver(f, S \ {x})

\* test_size=0.2: n_test = ceil(0.2 * n_samples), n_train the rest (the
\* product is rounded as a float; up to 39 samples its ceiling is that of
\* n_samples / 5)
NTest(n_samples) == (n_samples + 4) \div 5

NTrain(n_samples) == n_samples - NTest(n_samples)

\* The stratified allocation of n_draws draws to the classes: the floor of
\* each class's share, the draws left over going to the classes with the
\* largest remainders (equal remainders in either order)
ApproximateMode(class_counts, n_draws) ==
    LET C       == DOMAIN class_counts
        total   == SumOver(class_counts, C)
        floored == [c \in C |-> (class_counts[c] * n_draws) \div total]
        remainder == [c \in C |-> (class_counts[c] * n_draws) % total]
        need_to_add == n_draws - SumOver(floored, C)
    IN  { [c \in C |-> floored[c] + (IF c \in S THEN 1 ELSE 0)] :
            S \in {T \in SUBSET C :
                      /\ Cardinality(T) = need_to_add
                      /\ \A a \in T, b \in C \ T : remainder[a] >= remainder[b]} }

\* SplitRaises without the test of the least populated class
SplitRaisesOnSizes(labels) ==
    LET n == Len(labels)
    IN  \/ NTrain(n) = 0
        \/ NTrain(n) < Cardinality(Classes(labels))
        \/ NTest(n) < Cardinality(Classes(labels))

\* train_test_split raises ValueError: an empty train set, a class with a
\* single member, or fewer train or test places than classes
SplitRaises(labels) ==
    LET n == Len(labels)
    IN  \/ NTrain(n) = 0
        \/ \E c \in Classes(labels) : ClassCounts(labels)[c] < 2
        \/ NTrain(n) < Cardinality(Classes(labels))
        \/ NTest(n) < Cardinality(Classes(labels))

\* The index sets of all ways to take picks[c] members of each class c
PickFromClasses(labels, picks, within) ==
    { UNION {f[c] : c \in DOMAIN picks} :
        f \in { g \in [DOMAIN picks -> SUBSET within] :
                  \A c \in DOMAIN picks :
                      /\ g[c] \subseteq ClassIndices(labels, c)
                      /\ Cardinality(g[c]) = picks[c] } }

\* Lines 40-42: the [train, test] index sets the split can return
TrainTestSplit(labels) ==
    LET n == Len(labels)
        class_counts == ClassCounts(labels)
    IN  UNION { UNION {
            { [train |-> train, test |-> test] :
                test \in PickFromClasses(labels, t_i, (1..n) \ train) }
            : train \in PickFromClasses(labels, n_i, 1..n),
              t_i \in ApproximateMode([c \in DOMAIN class_counts |->
                                          class_counts[c] - n_i[c]], NTest(n)) }
          : n_i \in ApproximateMode(class_counts, NTrain(n)) }

\* token_pattern r'\b[a-z]+\b' on the lower-cased text: the tokens made of
\* letters a-z only
IsTerm(tok) == Len(tok) >= 1 /\ \A i \in 1..Len(tok) : tok[i] \in LowerSet

Terms(text) ==
    LET low == LowerText(text)
    IN  {low[i] : i \in {j \in 1..Len(low) : IsTerm(low[j])}}

\* min_df=2: the terms found in at least two of the documents
Vocabulary(texts, train) ==
    {t \in UNION {Terms(texts[i]) : i \in train} :
        Cardinality({i \in train : t \in Terms(texts[i])}) >= 2}

\* Lines 48-60: Pipeline.fit raises ValueError when min_df exceeds the
\* number of documents or no term is left in the vocabulary
FitRaises(texts, train) ==
    \/ Cardinality(train) < 2
    \/ Vocabulary(texts, train) = {}

w_sentence == <<w_goal, w_team, w_bang>>
w_report   == <<w_bank, w_market>>
w_caps     == <<w_Goal, w_bank>>
w_digits   == <<w_year, w_bang>>

RecordKinds == {
    [text |-> w_sentence, label |-> "sport"],
    [text |-> w_report,   label |-> "business"],
    [text |-> w_caps,     label |-> "unknown"],
    [text |-> w_digits,   label |-> "unknown"] }

\* The labels in the order np.unique gives them
SortedLabels == <<"business", "politics", "sport", "tech", "travel", "unknown">>

\* Line 60: the fitted pipeline; MultinomialNB keeps the sorted distinct
\* labels of the train part as classes_
Fitted(labels, train) ==
    [fitted |-> TRUE,
     classes_ |-> SelectSeq(SortedLabels,
                            LAMBDA c : \E i \in train : labels[i] = c)]

\* train_classifier(training_file): lines 24-30 take the text and label of
\* every record of the file, lines 40-42 split them, line 60 fits on the
\* train part
TrainClassifier ==
    /\ train_pc = "start"
    /\ LET texts  == [i \in 1..Len(training_data) |-> training_data[i].text]
           labels == [i \in 1..Len(training_data) |-> training_data[i].label]
       IN  IF SplitRaises(labels)
           THEN train_pc' = "ValueError" /\ fit_input' = {}
                /\ classifier' = NoClassifier
           ELSE \E split \in TrainTestSplit(labels) :
                   IF FitRaises(texts, split.train)
                   THEN train_pc' = "ValueError" /\ fit_input' = {}
                        /\ classifier' = NoClassifier
                   ELSE train_pc' = "fitted" /\ fit_input' = split.train
                        /\ classifier' = Fitted(labels, split.train)
    /\ UNCHANGED training_data
    /\ UNCHANGED <<labelerVars, mergeVars, urlVars, normVars>>
    /\ UNCHANGED <<relabelVars, labeledUrlVars, otherVars>>
    /\ UNCHANGED <<unknown_file, probabilities, labeled_output, label_pc>>

\* The training file holds any records, 'unknown' ones among them
InitTrain ==
    /\ training_data \in Lists(RecordKinds, MaxTrain)
    /\ train_pc = "start"
    /\ fit_input = {}

InitTrainClassifier ==
    InitLabeler /\ InitTrain /\ IdleMerge /\ IdleUrls /\ IdleNormalize
    /\ IdleLater

NextTrain == TrainClassifier

SpecTrain == InitTrainClassifier /\ [][NextTrain]_vars

\* The training file is mixed: it holds 'unknown' records and others
MixedDataset ==
    /\ \E i \in 1..Len(training_data) : training_data[i].label = "unknown"
    /\ \E i \in 1..Len(training_data) : training_data[i].label # "unknown"

\* C2: neither classifier trains on a record labelled 'unknown', and the
\* records kept out of training are exactly the 'unknown' records.  For
\* train_classifier the first half already says: for every mixed dataset,
\* whenever the fit is reached, no record passed to it is labelled
\* 'unknown'.
C2_UnknownExcludedFromTraining ==
    (train_pc = "fitted" /\ MixedDataset) =>
        \A i \in fit_input : training_data[i].label # "unknown"

----------------------------------------------------------------------------
(* merge_labeled_articles (merge_labeled_unknown.py) *)

MaxGood == 2
MaxLabeled == 2
MaxMerges == 2

\* article.get('confidence', 0)
Confidence(article) ==
    IF "confidence" \in DOMAIN article THEN article.confidence ELSE 0

\* NewArticles keeping each accepted record whole
RECURSIVE NewArticlesWhole(_, _, _)
NewArticlesWhole(labeled_articles, min_confidence, i) ==
    IF i > Len(labeled_articles) THEN <<>>
    ELSE IF Confidence(labeled_articles[i]) >= min_confidence
    THEN <<labeled_articles[i]>>
         \o NewArticlesWhole(labeled_articles, min_confidence, i + 1)
    ELSE NewArticlesWhole(labeled_articles, min_confidence, i + 1)

\* Lines 53-63: the records that pass the threshold, cut down to text and
\* label, from record i on
RECURSIVE NewArticles(_, _, _)
NewArticles(labeled_articles, min_confidence, i) ==
    IF i > Len(labeled_articles) THEN <<>>
    ELSE IF Confidence(labeled_articles[i]) >= min_confidence
    THEN <<[text |-> labeled_articles[i].text, label |-> labeled_articles[i].label]>>
         \o NewArticles(labeled_articles, min_confidence, i + 1)
    ELSE NewArticles(labeled_articles, min_confidence, i + 1)

\* Lines 51-63: filtered_out, the records below the threshold
FilteredOut(labeled_articles, min_confidence) ==
    Cardinality({i \in 1..Len(labeled_articles) :
                    ~(Confidence(labeled_articles[i]) >= min_confidence)})

\* Line 77
MergedArticles(existing_articles, new_articles) == existing_articles \o new_articles

GoodKinds == {
    [text |-> w_sentence, label |-> "sport"],
    [text |-> w_report,   label |-> "business"],
    [text |-> w_caps,     label |-> "sport"] }

LabeledKinds == {
    [text |-> w_sentence, label |-> "sport", confidence |-> 90],
    [text |-> w_report,   label |-> "business", confidence |-> 30],
    [text |-> w_caps,     label |-> "sport"],
    [text |-> w_digits,   label |-> "business", confidence |-> 90] }

MinConfidenceChoices == {0, 50}

\* merge_labeled_articles(good_categories_file, unknown_labeled_file,
\* output_file, min_confidence); overwrite says that output_file is
\* good_categories_file, as in the script's main block
MergeLabeledArticles ==
    /\ merges < MaxMerges
    /\ \E min_confidence \in MinConfidenceChoices, overwrite \in BOOLEAN :
        LET existing_articles == good_file
            new_articles    == NewArticles(labeled_file, min_confidence, 1)
            merged_articles == MergedArticles(existing_articles, new_articles)
        IN  /\ backup_file' = good_file
            /\ output_file' = merged_articles
            /\ good_file' = IF overwrite THEN merged_articles ELSE good_file
            /\ summary' = [original_count |-> Len(existing_articles),
                           added_count |-> Len(new_articles),
                           total_count |-> Len(merged_articles),
                           min_confidence_threshold |-> min_confidence,
                           filtered_out_count |->
                               FilteredOut(labeled_file, min_confidence)]
    /\ merges' = merges + 1
    /\ UNCHANGED labeled_file
    /\ UNCHANGED <<labelerVars, trainVars, urlVars, normVars>>
    /\ UNCHANGED <<relabelVars, labelVars, labeledUrlVars, otherVars>>

InitMerge ==
    /\ good_file \in Lists(GoodKinds, MaxGood)
    /\ labeled_file \in Lists(LabeledKinds, MaxLabeled)
    /\ backup_file = <<>>
    /\ output_file = <<>>
    /\ summary = NoSummary
    /\ merges = 0

InitMergeLabeled ==
    InitLabeler /\ IdleTrain /\ InitMerge /\ IdleUrls /\ IdleNormalize
    /\ IdleLater

NextMerge == MergeLabeledArticles

SpecMerge == InitMergeLabeled /\ [][NextMerge]_vars

\* The text and label of a labelled record
TextAndLabel(article) == [text |-> article.text, label |-> article.label]

\* Every record of unknown_labeled.json is, by text and label, a record of
\* the dataset the run started from
LabeledWithinOriginal ==
    \A j \in 1..Len(labeled_file) :
        \E i \in 1..Len(backup_file) :
            backup_file[i] = TextAndLabel(labeled_file[j])

\* C3: merging a labelled dataset with itself or with a subset of itself
\* gives a merged dataset of the size of the original, with zero net
\* additions.
C3_MergeWithSubsetAddsNothing ==
    (merges > 0 /\ LabeledWithinOriginal) =>
        /\ Len(output_file) = Len(backup_file)
        /\ summary.added_count = 0
        /\ summary.total_count = summary.original_count

\* C17: a merge accounts for every prediction: added_count plus
\* filtered_out_count is the number of labelled records, total_count is
\* original_count plus added_count, a threshold of 0 (the default) filters
\* nothing out, and each record added to the output carries the text and
\* label fields only.
C17_EveryPredictionAccounted ==
    merges > 0 =>
        /\ summary.added_count + summary.filtered_out_count = Len(labeled_file)
        /\ summary.original_count = Len(backup_file)
        /\ summary.total_count = summary.original_count + summary.added_count
        /\ summary.total_count = Len(output_file)
        /\ summary.min_confidence_threshold = 0 =>
               /\ summary.filtered_out_count = 0
               /\ summary.added_count = Len(labeled_file)
        /\ \A i \in (Len(backup_file) + 1)..Len(output_file) :
               DOMAIN output_file[i] = {"text", "label"}

\* A merge at threshold 50 that added one prediction and filtered one out,
\* the added one having carried a confidence
C17_Witness ==
    /\ merges > 0
    /\ summary.min_confidence_threshold = 50
    /\ summary.added_count = 1
    /\ summary.filtered_out_count = 1
    /\ \E j \in 1..Len(labeled_file) :
           /\ "confidence" \in DOMAIN labeled_file[j]
           /\ output_file[Len(output_file)] = TextAndLabel(labeled_file[j])

----------------------------------------------------------------------------
(* normalize_url (merge_news_urls.py).  A URL is the sequence of its       *)
(* characters.                                                             *)

s_http    == <<"h","t","t","p",":","/","/">>
s_https   == <<"h","t","t","p","s",":","/","/">>
s_HTTP    == <<"H","T","T","P",":","/","/">>
s_www     == <<"w","w","w",".">>
s_bbc_com       == <<"b","b","c",".","c","o","m">>
s_bbc_co_uk     == <<"b","b","c",".","c","o",".","u","k">>
s_www_bbc_com   == s_www \o s_bbc_com
s_www_bbc_co_uk == s_www \o s_bbc_co_uk
s_example_org   == <<"e","x","a","m","p","l","e",".","o","r","g">>
s_news    == <<"/","n","e","w","s">>
s_News    == <<"/","N","e","w","s">>

\* str.rstrip(c)
RECURSIVE RStrip(_, _)
RStrip(s, c) ==
    IF Len(s) > 0 /\ s[Len(s)] = c THEN RStrip(SubSeq(s, 1, Len(s) - 1), c)
    ELSE s

\* str.startswith(prefix)
StartsWith(s, prefix) ==
    Len(s) >= Len(prefix) /\ SubSeq(s, 1, Len(prefix)) = prefix

\* str.replace(old, new): every occurrence, scanning from the left
RECURSIVE Replace(_, _, _)
Replace(s, old, new) ==
    IF s = <<>> THEN <<>>
    ELSE IF StartsWith(s, old)
    THEN new \o Replace(SubSeq(s, Len(old) + 1, Len(s)), old, new)
    ELSE <<Head(s)>> \o Replace(Tail(s), old, new)

\* str.replace(old, new, 1): the first occurrence only
RECURSIVE ReplaceFirst(_, _, _)
ReplaceFirst(s, old, new) ==
    IF s = <<>> THEN <<>>
    ELSE IF StartsWith(s, old)
    THEN new \o SubSeq(s, Len(old) + 1, Len(s))
    ELSE <<Head(s)>> \o ReplaceFirst(Tail(s), old, new)

\* normalize_url without the lower-casing of line 23
normalize_url_keeping_case(url) ==
    LET stripped == RStrip(url, "/")
        secure   == IF StartsWith(stripped, s_http)
                    THEN ReplaceFirst(stripped, s_http, s_https)
                    ELSE stripped
    IN  Replace(Replace(secure, s_www_bbc_co_uk, s_bbc_co_uk),
                s_www_bbc_com, s_bbc_com)

\* normalize_url(url), lines 23-30
normalize_url(url) ==
    LET stripped == RStrip(LowerStr(url), "/")
        secure   == IF StartsWith(stripped, s_http)
                    THEN ReplaceFirst(stripped, s_http, s_https)
                    ELSE stripped
    IN  Replace(Replace(secure, s_www_bbc_co_uk, s_bbc_co_uk),
                s_www_bbc_com, s_bbc_com)

MaxSlashes == 2

\* n slashes
Slashes(n) == [i \in 1..n |-> "/"]

\* The URL with the given parts
UrlOf(u) == u.scheme \o u.www \o u.host \o u.path \o Slashes(u.slashes)

UrlParts ==
    [scheme : {s_http, s_https, s_HTTP},
     www    : {<<>>, s_www},
     host   : {s_bbc_com, s_bbc_co_uk, s_example_org},
     path   : {<<>>, s_news, s_News},
     slashes : 0..MaxSlashes]

\* normalize_url on two URLs
NormalizeUrls ==
    /\ key_a = <<>>
    /\ key_a' = normalize_url(UrlOf(url_a))
    /\ key_b' = normalize_url(UrlOf(url_b))
    /\ UNCHANGED <<url_a, url_b>>
    /\ UNCHANGED <<labelerVars, trainVars, mergeVars, urlVars>>
    /\ UNCHANGED <<relabelVars, labelVars, labeledUrlVars, otherVars>>

InitNormalize ==
    /\ url_a \in UrlParts
    /\ url_b \in UrlParts
    /\ key_a = <<>>
    /\ key_b = <<>>

InitNormalizeUrl ==
    InitLabeler /\ IdleTrain /\ IdleMerge /\ IdleUrls /\ InitNormalize
    /\ IdleLater

NextNormalize == NormalizeUrls

SpecNormalize == InitNormalizeUrl /\ [][NextNormalize]_vars

\* Both keys are computed
Normalized == key_a # <<>>

\* The two URLs have the same host and path up to letter case; scheme,
\* www. prefix and trailing slashes are free
SameButForVariations ==
    /\ LowerStr(url_a.host) = LowerStr(url_b.host)
    /\ LowerStr(url_a.path) = LowerStr(url_b.path)

BbcHosts == {s_bbc_com, s_bbc_co_uk}

----------------------------------------------------------------------------
(* merge_and_label_urls (merge_news_urls.py) *)

MaxUrls == 2

\* Lines 79-80 and 90: the dictionary, the set and the counter of the loops
NoUrlsSeen == [unique_urls_dict |-> <<>>, seen_normalized |-> {},
               duplicates_count |-> 0]

\* Track keeping the copy seen last: the key's entry is overwritten
TrackOverwriting(st, url) ==
    LET normalized == normalize_url(url)
    IN  [st EXCEPT !.unique_urls_dict = Put(@, normalized, url),
                   !.seen_normalized = @ \cup {normalized}]

\* Lines 84-87: the body of the loop over the first file
Track(st, url) ==
    LET normalized == normalize_url(url)
    IN  IF normalized \notin st.seen_normalized
        THEN [st EXCEPT !.unique_urls_dict = Put(@, normalized, url),
                        !.seen_normalized = @ \cup {normalized}]
        ELSE st

\* Lines 92-97: the body of the loop over the second file
TrackAndCount(st, url) ==
    IF normalize_url(url) \notin st.seen_normalized
    THEN Track(st, url)
    ELSE [st EXCEPT !.duplicates_count = @ + 1]

\* Lines 83-87: for url in urls1, from url i on
RECURSIVE ProcessFirstFile(_, _, _)
ProcessFirstFile(st, urls, i) ==
    IF i > Len(urls) THEN st
    ELSE ProcessFirstFile(Track(st, urls[i]), urls, i + 1)

\* Lines 91-97: for url in urls2, from url i on
RECURSIVE ProcessSecondFile(_, _, _)
ProcessSecondFile(st, urls, i) ==
    IF i > Len(urls) THEN st
    ELSE ProcessSecondFile(TrackAndCount(st, urls[i]), urls, i + 1)

\* Line 100: list(unique_urls_dict.values())
Values(d) == [i \in 1..Len(d) |-> d[i].val]

\* What labeler.extract_category can return for a page: None or a category
ExtractedCategories == {"None", "world"}

\* Lines 123-125
CategoryOrUnknown(category) == IF category = "None" THEN "unknown" ELSE category

\* Lines 120-136: labeled_articles, extracted[i] being what extract_category
\* returns for the i-th merged URL
LabeledArticles(merged_urls, extracted) ==
    [i \in 1..Len(merged_urls) |->
        [url |-> merged_urls[i], category |-> CategoryOrUnknown(extracted[i])]]

\* Lines 152-157: the articles when the URLs are not labelled
UnlabeledArticles(merged_urls) ==
    [i \in 1..Len(merged_urls) |-> [url |-> merged_urls[i], category |-> "None"]]

\* Line 136: category_counts over the labelled articles, from article i on
RECURSIVE CategoryCounts(_, _, _)
CategoryCounts(counts, articles, i) ==
    IF i > Len(articles) THEN counts
    ELSE LET category == articles[i].category
         IN  CategoryCounts(
                 Put(counts, category,
                     (IF category \in Keys(counts) THEN Get(counts, category) ELSE 0) + 1),
                 articles, i + 1)

h_article == [scheme |-> s_https, www |-> s_www, host |-> s_bbc_com,
              path |-> s_news, slashes |-> 0]
h_variant == [scheme |-> s_HTTP, www |-> <<>>, host |-> s_bbc_com,
              path |-> s_News, slashes |-> 1]
h_sport   == [scheme |-> s_https, www |-> s_www, host |-> s_bbc_co_uk,
              path |-> <<>>, slashes |-> 0]
h_other   == [scheme |-> s_https, www |-> s_www, host |-> s_example_org,
              path |-> s_news, slashes |-> 0]

UrlPool == {UrlOf(h_article), UrlOf(h_variant), UrlOf(h_sport), UrlOf(h_other)}

\* merge_and_label_urls(file1_path, file2_path, output_path, delay, label_urls)
MergeAndLabelUrls ==
    /\ urls_pc = "start"
    /\ \E st \in {ProcessSecondFile(ProcessFirstFile(NoUrlsSeen, urls1, 1), urls2, 1)} :
        LET merged_urls == Values(st.unique_urls_dict)
        IN  \E label_urls \in BOOLEAN :
                \E extracted \in (IF label_urls
                                  THEN [1..Len(merged_urls) -> ExtractedCategories]
                                  ELSE {<<>>}) :
                    LET labeled_articles ==
                            IF label_urls THEN LabeledArticles(merged_urls, extracted)
                            ELSE UnlabeledArticles(merged_urls)
                    IN  merged_data' =
                            [total_urls |-> Len(merged_urls),
                             duplicates_removed |-> st.duplicates_count,
                             articles |-> labeled_articles,
                             category_counts |->
                                 IF label_urls
                                 THEN CategoryCounts(<<>>, labeled_articles, 1)
                                 ELSE <<>>]
    /\ urls_pc' = "returned"
    /\ UNCHANGED <<urls1, urls2>>
    /\ UNCHANGED <<labelerVars, trainVars, mergeVars, normVars>>
    /\ UNCHANGED <<relabelVars, labelVars, labeledUrlVars, otherVars>>

InitUrls ==
    /\ urls1 \in Lists(UrlPool, MaxUrls)
    /\ urls2 \in Lists(UrlPool, MaxUrls)
    /\ merged_data = NoMergedData
    /\ urls_pc = "start"

InitMergeUrls ==
    InitLabeler /\ IdleTrain /\ IdleMerge /\ InitUrls /\ IdleNormalize
    /\ IdleLater

NextUrls == MergeAndLabelUrls

SpecUrls == InitMergeUrls /\ [][NextUrls]_vars

\* The URLs of both files in scanning order, and the merged URL list
InputUrls == urls1 \o urls2

MergedUrls == [i \in 1..Len(merged_data.articles) |-> merged_data.articles[i].url]

\* The normalized keys of a list of URLs, from URL i on
RECURSIVE NormalizedKeys(_, _)
NormalizedKeys(urls, i) ==
    IF i > Len(urls) THEN <<>>
    ELSE <<normalize_url(urls[i])>> \o NormalizedKeys(urls, i + 1)

\* The places of the keys that no earlier place of the list holds
FirstOccurrences(keys) ==
    {i \in 1..Len(keys) : \A j \in 1..(i - 1) : keys[j] # keys[i]}

\* C8: the merged URL list holds no two URLs with the same normalized key,
\* every input URL's key is represented in it, and for each key the URL
\* kept is the first occurrence scanning file 1 and then file 2, in its
\* original form and in first-occurrence order.
C8_FirstSeenCopyWins ==
    urls_pc = "returned" =>
        \E input_keys \in {NormalizedKeys(InputUrls, 1)},
           merged_keys \in {NormalizedKeys(MergedUrls, 1)} :
            \E first \in {FirstOccurrences(input_keys)} :
                /\ \A i, j \in 1..Len(merged_keys) :
                    i # j => merged_keys[i] # merged_keys[j]
                /\ \A i \in 1..Len(input_keys) :
                    \E j \in 1..Len(merged_keys) : merged_keys[j] = input_keys[i]
                /\ Len(MergedUrls) = Cardinality(first)
                /\ \A i \in first :
                    MergedUrls[Cardinality({j \in first : j <= i})] = InputUrls[i]
                /\ merged_data.total_urls = Len(MergedUrls)

\* A key met in two different forms, once in each file; the form met first
\* is kept and a URL with another key follows it
C8_Witness ==
    /\ urls_pc = "returned"
    /\ urls1 = <<UrlOf(h_variant), UrlOf(h_sport)>>
    /\ urls2 = <<UrlOf(h_article), UrlOf(h_other)>>
    /\ MergedUrls = <<UrlOf(h_variant), UrlOf(h_sport), UrlOf(h_other)>>

\* C9: every URL dropped as a duplicate is counted:
\* total_urls + duplicates_removed = len(urls of file 1) + len(urls of file 2).
C9_EveryDroppedUrlCounted ==
    urls_pc = "returned" =>
        merged_data.total_urls + merged_data.duplicates_removed
            = Len(urls1) + Len(urls2)

----------------------------------------------------------------------------
(* relabel_unknown_articles (relabel_unknown_articles.py).  The articles    *)
(* are held by their place in data['articles'], counted from 1.  A          *)
(* KeyboardInterrupt can be raised between any two lines of the loop, so    *)
(* the four assignments that relabel a record are four steps.               *)

MaxData == 3

u_article == "https://www.bbc.com/news/articles/c1"

DataKinds == {
    [url |-> u_article, category |-> "sport",
        title |-> <<w_Goal, w_team>>, tags |-> <<>>],
    [url |-> u_article, category |-> "business",
        title |-> <<w_bank, w_market>>, tags |-> <<>>],
    [url |-> u_article, category |-> "unknown", title |-> <<>>, tags |-> <<>>],
    [url |-> "", category |-> "unknown", title |-> <<>>, tags |-> <<>>],
    [url |-> u_article, category |-> "", title |-> <<w_bank>>, tags |-> <<>>] }

\* What get_page, extract_title and extract_tags give for a URL: no soup
\* (any request error), a page without a title, or a page with a title
PageOutcomes == {
    [soup |-> FALSE, title |-> <<>>, tags |-> <<>>],
    [soup |-> TRUE, title |-> <<>>, tags |-> << <<w_goal, w_team>> >>],
    [soup |-> TRUE, title |-> <<w_goal, w_team>>, tags |-> <<>>],
    [soup |-> TRUE, title |-> <<w_team, w_bank>>, tags |-> <<>>] }

ParamChoices ==
    [start_index : {0, 1}, limited : {FALSE}, limit : {0},
     checkpoint_interval : {1, 2}, min_keywords : MinKeywordsChoices]
    \cup [start_index : {0, 1}, limited : {TRUE}, limit : {1},
          checkpoint_interval : {1, 2}, min_keywords : MinKeywordsChoices]

\* Line 284: the places of the articles with a category other than 'unknown'
KnownArticles(articles) ==
    SelectSeq([i \in 1..Len(articles) |-> i],
              LAMBDA i : articles[i].category # "" /\ articles[i].category # "unknown")

\* Lines 285-288: the places of the articles whose category is 'unknown'
UnknownArticles(articles) ==
    SelectSeq([i \in 1..Len(articles) |-> i],
              LAMBDA i : articles[i].category = "unknown")

\* unknown_articles[start_index:] for start_index >= 0
From(seq, start_index) ==
    IF start_index >= Len(seq) THEN <<>> ELSE SubSeq(seq, start_index + 1, Len(seq))

\* unknown_articles[:limit] for limit >= 0
UpTo(seq, limit) == IF limit >= Len(seq) THEN seq ELSE SubSeq(seq, 1, limit)

\* SelectUnknown without the start_index and limit slices
SelectEveryUnknown(unknown, p) == unknown

\* Lines 312-317: the slices start_index and limit take of unknown_articles
SelectUnknown(unknown, p) ==
    LET started == IF p.start_index > 0 THEN From(unknown, p.start_index)
                   ELSE unknown
    IN  IF p.limited THEN UpTo(started, p.limit) ELSE started

\* Lines 211-223: fetch_and_classify on a page outcome
fetch_and_classify(cp, page) ==
    IF ~page.soup THEN NoneResult
    ELSE IF page.title = <<>> THEN NoneResult
    ELSE ClassifyResult(cp, page.title, page.tags)

\* Line 358: round(confidence, 3), in thousandths, halves to even
Round3(confidence) ==
    LET q == (1000 * confidence.num) \div confidence.den
        r == (1000 * confidence.num) % confidence.den
    IN  IF 2 * r > confidence.den \/ (2 * r = confidence.den /\ q % 2 = 1)
        THEN q + 1 ELSE q

\* processed_count counting the relabelled articles only
ProcessedIfRelabeled(processed_count, res) ==
    IF res.ret = "tuple" THEN processed_count + 1 ELSE processed_count

\* Line 367: processed_count += 1, whatever fetch_and_classify returned
Processed(processed_count, res) == processed_count + 1

\* A checkpoint that writes nothing
KeepBackup(backup, articles) == backup

\* Lines 330-336: save_checkpoint writes data to the backup file
save_checkpoint(backup, articles) == [exists |-> TRUE, articles |-> articles]

\* The article the loop is at
ArticleIdx == unknown_articles[pos]

\* Line 339: idx, which enumerate counts from start_index
Idx == params.start_index + pos - 1

\* Lines 376-377: the loop sleeps when idx < len(unknown_articles) - 1
Sleeps(idx, n) == idx < n - 1

InLoop ==
    relabel_pc \in {"loop", "fetch", "set_category", "set_relabeled_at",
                    "set_relabel_confidence", "set_relabel_method", "count",
                    "checkpoint"}

\* Lines 269-300: load the file and take the known and the unknown articles
RelabelLoad ==
    /\ relabel_pc = "start"
    /\ IF ~input_path.exists \/ input_path.articles = <<>>
       THEN /\ relabel_pc' = "returned None"
            /\ UNCHANGED <<loaded, data, known_articles, unknown_articles>>
       ELSE /\ loaded' = input_path.articles
            /\ data' = input_path.articles
            /\ known_articles' = KnownArticles(input_path.articles)
            /\ unknown_articles' = UnknownArticles(input_path.articles)
            /\ relabel_pc' =
                  IF KnownArticles(input_path.articles) = <<>> THEN "returned None"
                  ELSE IF UnknownArticles(input_path.articles) = <<>>
                  THEN "returned data"
                  ELSE "build"
    /\ UNCHANGED <<input_path, backup_path, params, pos, fetched, classified,
                   progress, interrupted>>
    /\ UNCHANGED <<labelerVars, trainVars, mergeVars, urlVars, normVars>>
    /\ UNCHANGED <<labelVars, labeledUrlVars, otherVars>>
    /\ UNCHANGED slept

\* Lines 303-328: build the profiles on a new labeler, slice unknown_articles
RelabelBuild ==
    /\ relabel_pc = "build"
    /\ LET articles == [k \in 1..Len(known_articles) |-> data[known_articles[k]]]
       IN  /\ \E ck \in {CollectKeywords(<<>>, articles, 1, Len(articles))} :
                /\ category_keywords' = ck
                /\ category_profiles' \in
                       BuildProfiles(<<>>, ck, 1, params.min_keywords)
           /\ call' = [NoCall EXCEPT !.op = "build", !.articles = articles,
                                     !.min_keywords = params.min_keywords]
    /\ builds' = 1
    /\ best_category' = NoBest
    /\ result' = NoneResult
    /\ unknown_articles' = SelectUnknown(unknown_articles, params)
    /\ pos' = 1
    /\ progress' = NoProgress
    /\ relabel_pc' = "loop"
    /\ UNCHANGED <<input_path, backup_path, loaded, data, params, known_articles,
                   fetched, classified, interrupted>>
    /\ UNCHANGED <<trainVars, mergeVars, urlVars, normVars>>
    /\ UNCHANGED <<labelVars, labeledUrlVars, otherVars>>
    /\ UNCHANGED slept

\* Lines 339-343: the next article of the loop; one without URL is skipped
RelabelNext ==
    /\ relabel_pc = "loop"
    /\ IF pos > Len(unknown_articles)
       THEN relabel_pc' = "save" /\ pos' = pos
       ELSE IF data[ArticleIdx].url = ""
       THEN relabel_pc' = "loop" /\ pos' = pos + 1
       ELSE relabel_pc' = "fetch" /\ pos' = pos
    /\ UNCHANGED <<input_path, backup_path, loaded, data, params, known_articles,
                   unknown_articles, fetched, classified, progress, interrupted>>
    /\ UNCHANGED <<labelerVars, trainVars, mergeVars, urlVars, normVars>>
    /\ UNCHANGED <<labelVars, labeledUrlVars, otherVars>>
    /\ UNCHANGED slept

\* Line 351: result = labeler.fetch_and_classify(url)
RelabelFetch ==
    /\ relabel_pc = "fetch"
    /\ \E page \in PageOutcomes :
        /\ fetched' = fetch_and_classify(category_profiles, page)
        /\ IF page.soup /\ page.title # <<>>
           THEN /\ call' = [NoCall EXCEPT !.op = "classify", !.title = page.title,
                                          !.tags = page.tags]
                /\ best_category' = BestCategory(category_profiles, page.title, page.tags)
                /\ result' = fetch_and_classify(category_profiles, page)
           ELSE UNCHANGED <<call, best_category, result>>
    /\ classified' = IF fetched'.ret = "tuple" THEN classified \cup {ArticleIdx}
                     ELSE classified
    /\ relabel_pc' = IF fetched'.ret = "tuple" THEN "set_category" ELSE "count"
    /\ slept' = FALSE
    /\ UNCHANGED <<category_keywords, category_profiles, builds>>
    /\ UNCHANGED <<input_path, backup_path, loaded, data, params, known_articles,
                   unknown_articles, pos, progress, interrupted>>
    /\ UNCHANGED <<trainVars, mergeVars, urlVars, normVars>>
    /\ UNCHANGED <<labelVars, labeledUrlVars, otherVars>>

\* One of the assignments of lines 356-359 on the article of the loop
RelabelSet(at, field, value, next) ==
    /\ relabel_pc = at
    /\ data' = [data EXCEPT ![ArticleIdx] =
                   IF field \in DOMAIN @ THEN [@ EXCEPT ![field] = value]
                   ELSE (field :> value) @@ @]
    /\ relabel_pc' = next
    /\ UNCHANGED <<input_path, backup_path, loaded, params, known_articles,
                   unknown_articles, pos, fetched, classified, progress,
                   interrupted>>
    /\ UNCHANGED <<labelerVars, trainVars, mergeVars, urlVars, normVars>>
    /\ UNCHANGED <<labelVars, labeledUrlVars, otherVars>>
    /\ UNCHANGED slept

\* Line 356
RelabelSetCategory ==
    RelabelSet("set_category", "category", fetched.category, "set_relabeled_at")

\* Line 357
RelabelSetRelabeledAt ==
    RelabelSet("set_relabeled_at", "relabeled_at", "now", "set_relabel_confidence")

\* Line 358
RelabelSetConfidence ==
    RelabelSet("set_relabel_confidence", "relabel_confidence",
               Round3(fetched.confidence), "set_relabel_method")

\* Line 359
RelabelSetMethod ==
    RelabelSet("set_relabel_method", "relabel_method", "keyword_analysis", "count")

\* Lines 361-377: the counters, whether a checkpoint is due and, when none
\* is, the delay
RelabelCount ==
    /\ relabel_pc = "count"
    /\ progress' = [progress EXCEPT
           !.relabeled_count = IF fetched.ret = "tuple" THEN @ + 1 ELSE @,
           !.processed_count = Processed(@, fetched)]
    /\ IF progress'.processed_count % params.checkpoint_interval = 0
       THEN relabel_pc' = "checkpoint" /\ pos' = pos /\ slept' = slept
       ELSE /\ relabel_pc' = "loop" /\ pos' = pos + 1
            /\ slept' = Sleeps(Idx, Len(unknown_articles))
    /\ UNCHANGED <<input_path, backup_path, loaded, data, params, known_articles,
                   unknown_articles, fetched, classified, interrupted>>
    /\ UNCHANGED <<labelerVars, trainVars, mergeVars, urlVars, normVars>>
    /\ UNCHANGED <<labelVars, labeledUrlVars, otherVars>>

\* Lines 371-377: the periodic checkpoint, then the delay
RelabelCheckpoint ==
    /\ relabel_pc = "checkpoint"
    /\ backup_path' = save_checkpoint(backup_path, data)
    /\ progress' = [progress EXCEPT !.checkpoints = @ + 1]
    /\ pos' = pos + 1
    /\ slept' = Sleeps(Idx, Len(unknown_articles))
    /\ relabel_pc' = "loop"
    /\ UNCHANGED <<input_path, loaded, data, params, known_articles,
                   unknown_articles, fetched, classified, interrupted>>
    /\ UNCHANGED <<labelerVars, trainVars, mergeVars, urlVars, normVars>>
    /\ UNCHANGED <<labelVars, labeledUrlVars, otherVars>>

\* A KeyboardInterrupt raised anywhere in the try block (lines 338-377)
KeyboardInterrupt ==
    /\ InLoop
    /\ ~interrupted
    /\ interrupted' = TRUE
    /\ relabel_pc' = "except"
    /\ UNCHANGED <<input_path, backup_path, loaded, data, params, known_articles,
                   unknown_articles, pos, fetched, classified, progress>>
    /\ UNCHANGED <<labelerVars, trainVars, mergeVars, urlVars, normVars>>
    /\ UNCHANGED <<labelVars, labeledUrlVars, otherVars>>
    /\ UNCHANGED slept

\* Lines 379-383: the handler saves a checkpoint and returns data
RelabelExcept ==
    /\ relabel_pc = "except"
    /\ backup_path' = save_checkpoint(backup_path, data)
    /\ progress' = [progress EXCEPT !.checkpoints = @ + 1]
    /\ relabel_pc' = "returned data"
    /\ UNCHANGED <<input_path, loaded, data, params, known_articles,
                   unknown_articles, pos, fetched, classified, interrupted>>
    /\ UNCHANGED <<labelerVars, trainVars, mergeVars, urlVars, normVars>>
    /\ UNCHANGED <<labelVars, labeledUrlVars, otherVars>>
    /\ UNCHANGED slept

\* Lines 386-416: the final save into the input file
RelabelSave ==
    /\ relabel_pc = "save"
    /\ input_path' = [exists |-> TRUE, articles |-> data]
    /\ relabel_pc' = "returned data"
    /\ UNCHANGED <<backup_path, loaded, data, params, known_articles,
                   unknown_articles, pos, fetched, classified, progress,
                   interrupted>>
    /\ UNCHANGED <<labelerVars, trainVars, mergeVars, urlVars, normVars>>
    /\ UNCHANGED <<labelVars, labeledUrlVars, otherVars>>
    /\ UNCHANGED slept

InitRelabel ==
    /\ input_path \in {NoFile}
           \cup {[exists |-> TRUE, articles |-> l] : l \in Lists(DataKinds, MaxData)}
    /\ backup_path = NoFile
    /\ loaded = <<>> /\ data = <<>>
    /\ params \in ParamChoices
    /\ known_articles = <<>> /\ unknown_articles = <<>>
    /\ relabel_pc = "start" /\ pos = 0 /\ fetched = NoneResult
    /\ classified = {} /\ progress = NoProgress /\ interrupted = FALSE
    /\ slept = FALSE

InitRelabelUnknown ==
    InitLabeler /\ IdleTrain /\ IdleMerge /\ IdleUrls /\ IdleNormalize
    /\ InitRelabel /\ IdleLabel /\ IdleLabeledUrls /\ IdleOther

NextRelabel ==
    \/ RelabelLoad
    \/ RelabelBuild
    \/ RelabelNext
    \/ RelabelFetch
    \/ RelabelSetCategory
    \/ RelabelSetRelabeledAt
    \/ RelabelSetConfidence
    \/ RelabelSetMethod
    \/ RelabelCount
    \/ RelabelCheckpoint
    \/ KeyboardInterrupt
    \/ RelabelExcept
    \/ RelabelSave

SpecRelabel == InitRelabelUnknown /\ [][NextRelabel]_vars

\* Files of one known article followed by unknown ones, long enough for a
\* start_index of 1 to leave two articles to process
MaxPaced == 3

InitRelabelPaced ==
    InitLabeler /\ IdleTrain /\ IdleMerge /\ IdleUrls /\ IdleNormalize
    /\ IdleLabel /\ IdleLabeledUrls /\ IdleOther
    /\ input_path \in
           {[exists |-> TRUE,
             articles |-> <<CHOOSE a \in DataKinds : a.category = "sport">> \o l] :
               l \in Lists({a \in DataKinds : a.category = "unknown"}, MaxPaced)}
    /\ backup_path = NoFile
    /\ loaded = <<>> /\ data = <<>>
    /\ params \in ParamChoices
    /\ known_articles = <<>> /\ unknown_articles = <<>>
    /\ relabel_pc = "start" /\ pos = 0 /\ fetched = NoneResult
    /\ classified = {} /\ progress = NoProgress /\ interrupted = FALSE
    /\ slept = FALSE

SpecRelabelPaced == InitRelabelPaced /\ [][NextRelabel]_vars

\* The places known_articles and unknown_articles hold
KnownSet == {known_articles[k] : k \in 1..Len(known_articles)}

UnknownSet == {unknown_articles[k] : k \in 1..Len(unknown_articles)}

\* The function has loaded the file and has not yet sliced unknown_articles
Partitioned == relabel_pc # "start" /\ loaded # <<>> /\ pos = 0

\* C11: the known and the unknown articles are disjoint and every loaded
\* article is in exactly one of the two: among the known when its category
\* is not 'unknown', among the unknown otherwise.
C11_EveryArticleKnownOrUnknown ==
    Partitioned =>
        /\ KnownSet \cap UnknownSet = {}
        /\ \A i \in 1..Len(loaded) :
              /\ i \in KnownSet \cup UnknownSet
              /\ i \in KnownSet <=> loaded[i].category # "unknown"

\* The place of a loaded article among those whose category is 'unknown'
UnknownRank(i) == Cardinality({j \in 1..i : loaded[j].category = "unknown"})

\* The unknown articles that start_index and limit select
SelectedUnknown ==
    {i \in 1..Len(loaded) :
        /\ loaded[i].category = "unknown"
        /\ UnknownRank(i) > params.start_index
        /\ params.limited => UnknownRank(i) <= params.start_index + params.limit}

RelabelFields == {"relabel_confidence", "relabel_method", "relabeled_at"}

\* C12: a record is changed only if it is one of the unknown records that
\* start_index and limit select and the keyword classifier returned an
\* accepted classification for it; a record the classifier did not accept
\* keeps category 'unknown' and gains none of relabel_confidence,
\* relabel_method, relabeled_at; a known record is never modified.
C12_OnlyAcceptedSelectedRecordsChange ==
    (relabel_pc # "start" /\ loaded # <<>>) =>
        /\ Len(data) = Len(loaded)
        /\ \A i \in 1..Len(loaded) :
              /\ data[i] # loaded[i] => i \in SelectedUnknown /\ i \in classified
              /\ (loaded[i].category = "unknown" /\ i \notin classified) =>
                    /\ data[i].category = "unknown"
                    /\ RelabelFields \cap DOMAIN data[i] = {}
              /\ loaded[i].category # "unknown" => data[i] = loaded[i]

\* A complete run with start_index = 1 that relabelled the second unknown
\* record and left the first, which has a URL, as it was
C12_Witness ==
    /\ relabel_pc = "returned data" /\ ~interrupted
    /\ params.start_index = 1
    /\ \E i, j \in 1..Len(loaded) :
          /\ i < j
          /\ loaded[i].category = "unknown" /\ loaded[i].url # ""
          /\ data[i] = loaded[i]
          /\ loaded[j].category = "unknown"
          /\ data[j].category = "sport"
          /\ RelabelFields \subseteq DOMAIN data[j]

\* A record carrying every change of a relabelling
Complete(article) ==
    /\ article.category # "unknown"
    /\ RelabelFields \subseteq DOMAIN article
    /\ article.relabel_method = "keyword_analysis"

\* C13: in every saved state (periodic checkpoint, checkpoint written after
\* a KeyboardInterrupt, final output) each record either carries all of a
\* non-'unknown' category, relabel_confidence, relabel_method =
\* 'keyword_analysis' and relabeled_at, or is completely untouched.
C13_SavedRecordsClassifiedOrUntouched ==
    (relabel_pc # "start" /\ loaded # <<>>) =>
        \A file \in {backup_path, input_path} :
            file.exists =>
                \A i \in 1..Len(file.articles) :
                    \/ file.articles[i] = loaded[i]
                    \/ Complete(file.articles[i])

\* C14: when the loop is interrupted by a KeyboardInterrupt a checkpoint
\* holding every relabelling made so far is saved before the function
\* returns: after the interrupt the function is in its handler or has
\* returned, and once it has returned the backup file holds the articles as
\* they are in memory.
C14_InterruptSavesCheckpoint ==
    interrupted =>
        /\ relabel_pc \in {"except", "returned data"}
        /\ relabel_pc = "returned data" =>
              /\ backup_path.exists
              /\ backup_path.articles = data
              /\ progress.checkpoints >= 1
              /\ \A i \in classified :
                    data[i].category # loaded[i].category =>
                        backup_path.articles[i].category = data[i].category

\* An interrupted run whose only checkpoint is the one of the handler, and
\* that checkpoint holds a relabelled record
C14_Witness ==
    /\ interrupted /\ relabel_pc = "returned data"
    /\ progress.checkpoints = 1
    /\ progress.relabeled_count = 1
    /\ \E i \in 1..Len(loaded) :
          /\ loaded[i].category = "unknown"
          /\ Complete(backup_path.articles[i])

\* C19: a failed fetch or classification never aborts the batch: the
\* article stays 'unknown', the loop goes on to the next article, and a run
\* that is not interrupted ends with processed_count equal to the number of
\* selected unknown articles that have a URL.
C19_FailureNeverAbortsBatch ==
    /\ (InLoop /\ relabel_pc \notin {"loop", "fetch"} /\ fetched.ret = "None") =>
          data[ArticleIdx] = loaded[ArticleIdx]
    /\ (relabel_pc \in {"save", "returned data"} /\ pos > 0 /\ ~interrupted) =>
          /\ pos = Len(unknown_articles) + 1
          /\ UnknownSet = SelectedUnknown
          /\ progress.processed_count
                = Cardinality({i \in SelectedUnknown : loaded[i].url # ""})
          /\ \A i \in SelectedUnknown \ classified : data[i] = loaded[i]
          /\ relabel_pc = "returned data" => input_path.articles = data

\* A complete run of two selected articles: the first was not classified
\* and stayed 'unknown', the second was relabelled after it
C19_Witness ==
    /\ relabel_pc = "returned data" /\ ~interrupted
    /\ Len(unknown_articles) = 2
    /\ progress.processed_count = 2
    /\ progress.relabeled_count = 1
    /\ unknown_articles[1] \notin classified
    /\ data[unknown_articles[1]].category = "unknown"
    /\ data[unknown_articles[2]].category = "sport"

\* C24: the fetches are serial with the fixed delay between calls: for
\* every start_index and limit the loop sleeps for delay after each
\* processed article except the last, so a fetch that is not the first of
\* the run comes after a sleep.
C24_DelayBetweenFetches ==
    (relabel_pc = "fetch" /\ progress.processed_count > 0) => slept

----------------------------------------------------------------------------
(* label_unknown_articles and the main block of                             *)
(* label_unknown_with_classifier.py.  A posterior is held in percent, as    *)
(* probs * 100; predict_proba gives each text a row of posteriors, one for  *)
(* each class, that sum to 100.                                             *)

MaxUnknown == 1

UnknownKinds == {
    [text |-> w_sentence, label |-> "unknown"],
    [text |-> w_digits,   label |-> "unknown"] }

Percents == {0, 25, 50, 75, 100}

\* The classifiers train_classifier can return, by their classes_
FittedClassifiers ==
    { [fitted |-> TRUE, classes_ |-> c] :
        c \in { <<"business", "sport">>,
                <<"business", "politics", "sport">>,
                <<"business", "politics", "sport", "tech">> } }

RECURSIVE SumRow(_, _)
SumRow(probs, i) == IF i = 0 THEN 0 ELSE probs[i] + SumRow(probs, i - 1)

\* Line 88: the rows classifier.predict_proba can give for n classes
ProbaRows(n) == {probs \in [1..n -> Percents] : SumRow(probs, n) = 100}

\* Line 87: classifier.predict takes the first class of the highest posterior
Argmax(probs) ==
    CHOOSE i \in DOMAIN probs :
        /\ \A j \in DOMAIN probs : probs[j] <= probs[i]
        /\ \A j \in DOMAIN probs : probs[j] = probs[i] => i <= j

\* Line 102: np.argsort(probs), the indices by ascending posterior; indices
\* of equal posterior come in any order
Argsort(probs) ==
    LET n == Len(probs)
    IN  {order \in [1..n -> 1..n] :
            /\ \A i, j \in 1..n : i # j => order[i] # order[j]
            /\ \A k \in 1..(n - 1) : probs[order[k]] <= probs[order[k + 1]]}

\* TopIndices without the reversal [::-1]
TopIndicesAscending(order) ==
    LET n == Len(order)
        m == IF n < 3 THEN n ELSE 3
    IN  [k \in 1..m |-> order[n - m + k]]

\* Line 102: [-3:][::-1], the last three indices (all of them when there are
\* fewer), last first
TopIndices(order) ==
    LET n == Len(order)
        m == IF n < 3 THEN n ELSE 3
    IN  [k \in 1..m |-> order[n + 1 - k]]

\* Lines 98-116: the record of a text, given its row of posteriors and the
\* order argsort gave
LabeledArticle(text, class_names, probs, order) ==
    LET top_indices == TopIndices(order)
    IN  [text |-> text,
         label |-> class_names[Argmax(probs)],
         confidence |-> probs[Argmax(probs)],
         top_predictions |->
             [k \in 1..Len(top_indices) |->
                 [label |-> class_names[top_indices[k]],
                  confidence |-> probs[top_indices[k]]]]]

\* The rows and orders predict_proba and argsort can give for n classes
RowsAndOrders(n) ==
    UNION { {[probs |-> probs, order |-> order] : order \in Argsort(probs)} :
              probs \in ProbaRows(n) }

\* Lines 88-118: the rows of posteriors and the labeled_articles they give
Labelings(unknown, class_names) ==
    { [probabilities |-> [i \in 1..Len(unknown) |-> choice[i].probs],
       labeled_articles |->
           [i \in 1..Len(unknown) |->
               LabeledArticle(unknown[i].text, class_names,
                              choice[i].probs, choice[i].order)]] :
        choice \in [1..Len(unknown) -> RowsAndOrders(Len(class_names))] }

\* label_unknown_articles(classifier, unknown_file, output_file); predict
\* raises ValueError on an empty list of texts
LabelUnknownArticles ==
    /\ label_pc = "start"
    /\ classifier.fitted
    /\ IF unknown_file = <<>>
       THEN label_pc' = "ValueError" /\ UNCHANGED <<probabilities, labeled_output>>
       ELSE /\ \E l \in Labelings(unknown_file, classifier.classes_) :
                /\ probabilities' = l.probabilities
                /\ labeled_output' = [exists |-> TRUE, articles |-> l.labeled_articles]
            /\ label_pc' = "returned"
    /\ UNCHANGED <<classifier, unknown_file>>
    /\ UNCHANGED <<labelerVars, trainVars, mergeVars, urlVars, normVars>>
    /\ UNCHANGED <<relabelVars, labeledUrlVars, otherVars>>

InitUnknownFile ==
    /\ unknown_file \in Lists(UnknownKinds, MaxUnknown)
    /\ probabilities = <<>>
    /\ labeled_output = NoFile
    /\ label_pc = "start"

\* The main block: train_classifier, then label_unknown_articles with the
\* classifier it returned
InitPipeline ==
    InitLabeler /\ IdleMerge /\ IdleUrls /\ IdleNormalize
    /\ training_data \in Lists({r \in RecordKinds : r.label # "unknown"}, MaxTrain)
    /\ train_pc = "start" /\ fit_input = {}
    /\ IdleRelabel /\ IdleLabeledUrls /\ IdleOther
    /\ classifier = NoClassifier /\ InitUnknownFile

NextPipeline == TrainClassifier \/ LabelUnknownArticles

SpecPipeline == InitPipeline /\ [][NextPipeline]_vars

\* label_unknown_articles alone, with a classifier trained before
InitLabelUnknown ==
    InitLabeler /\ IdleTrain /\ IdleMerge /\ IdleUrls /\ IdleNormalize
    /\ IdleRelabel /\ IdleLabeledUrls /\ IdleOther
    /\ classifier \in FittedClassifiers /\ InitUnknownFile

NextLabel == LabelUnknownArticles

SpecLabel == InitLabelUnknown /\ [][NextLabel]_vars

TrainingLabels == [i \in 1..Len(training_data) |-> training_data[i].label]

\* Some category of the training data has fewer than 2 examples
UnderRepresented ==
    \E c \in Classes(TrainingLabels) : ClassCounts(TrainingLabels)[c] < 2

\* C18: when some category of the training data has fewer than 2 examples
\* train_classifier fails with an error and returns no model, and in that
\* run label_unknown_articles is never executed and no labelled output is
\* written.
C18_UnderRepresentedCategoryStopsRun ==
    /\ (UnderRepresented /\ train_pc # "start") =>
          train_pc = "ValueError" /\ classifier = NoClassifier
    /\ train_pc # "fitted" =>
          /\ ~classifier.fitted
          /\ label_pc = "start"
          /\ labeled_output = NoFile

\* A failed training on six records, one of them alone in its category,
\* with an unknown file waiting to be labelled
C18_Witness ==
    /\ train_pc = "ValueError"
    /\ Len(training_data) = 6
    /\ \E c \in Classes(TrainingLabels) : ClassCounts(TrainingLabels)[c] = 1
    /\ \E c \in Classes(TrainingLabels) : ClassCounts(TrainingLabels)[c] = 5
    /\ unknown_file # <<>>
    /\ labeled_output = NoFile

\* The posterior of a class in a row of predict_proba
PosteriorOf(probs, class_names, label) ==
    probs[CHOOSE i \in 1..Len(class_names) : class_names[i] = label]

\* The entries of top_predictions are distinct classes with their
\* posteriors, highest first, and no class left out has a higher posterior
\* than one that is in
TopPredictionsOrdered(article, probs, class_names) ==
    LET top == article.top_predictions
    IN  /\ \A k \in 1..Len(top) :
              /\ \E i \in 1..Len(class_names) : class_names[i] = top[k].label
              /\ top[k].confidence = PosteriorOf(probs, class_names, top[k].label)
        /\ \A k, l \in 1..Len(top) : k # l => top[k].label # top[l].label
        /\ \A k \in 1..(Len(top) - 1) : top[k].confidence >= top[k + 1].confidence
        /\ \A i \in 1..Len(class_names) :
              (\A k \in 1..Len(top) : top[k].label # class_names[i]) =>
                  \A k \in 1..Len(top) : top[k].confidence >= probs[i]

\* C15 as stated: for every text and every trained model top_predictions
\* has exactly 3 entries, the 3 categories of highest posterior, from the
\* highest to the lowest confidence.
C15_ExactlyThreeTopPredictions ==
    label_pc = "returned" =>
        \A i \in 1..Len(labeled_output.articles) :
            /\ Len(labeled_output.articles[i].top_predictions) = 3
            /\ TopPredictionsOrdered(labeled_output.articles[i], probabilities[i],
                                     classifier.classes_)

\* C15 amended: top_predictions has 3 entries when the model has at least 3
\* classes and one entry for each class when it has fewer; they are the
\* categories of highest posterior, from the highest to the lowest
\* confidence.
C15_AtMostThreeTopPredictions ==
    label_pc = "returned" =>
        \A i \in 1..Len(labeled_output.articles) :
            /\ Len(labeled_output.articles[i].top_predictions)
                  = IF Len(classifier.classes_) < 3 THEN Len(classifier.classes_)
                    ELSE 3
            /\ TopPredictionsOrdered(labeled_output.articles[i], probabilities[i],
                                     classifier.classes_)

\* A record labelled by a model of four classes: three top predictions of
\* strictly decreasing confidence, the fourth class left out
C15_Witness ==
    /\ label_pc = "returned"
    /\ Len(classifier.classes_) = 4
    /\ \E i \in 1..Len(labeled_output.articles) :
          LET top == labeled_output.articles[i].top_predictions
          IN  /\ Len(top) = 3
              /\ top[1].confidence > top[2].confidence
              /\ top[2].confidence > top[3].confidence

\* C27: for every text the label label_unknown_articles reports is the
\* label of the first entry of the text's top_predictions, also when two
\* or more categories have exactly the same posterior.
C27_LabelIsFirstTopPrediction ==
    label_pc = "returned" =>
        \A i \in 1..Len(labeled_output.articles) :
            labeled_output.articles[i].label
                = labeled_output.articles[i].top_predictions[1].label

----------------------------------------------------------------------------
(* merge_labeled_urls (label_news_categories.py).  existing_labeled is the  *)
(* data loaded from existing_file, with exists = FALSE when the file is     *)
(* missing or unreadable (load_existing_labeled_urls returns None).         *)

MaxExisting == 2
MaxNew == 2

u_first  == "https://www.bbc.com/news/articles/c1"
u_second == "https://www.bbc.com/sport/articles/c2"

LabeledUrlKinds == {
    [url |-> u_first,  category |-> "sport"],
    [url |-> u_first,  category |-> "unknown"],
    [url |-> u_second, category |-> "business"],
    [url |-> "",       category |-> "sport"] }

\* Lines 509-514: existing_articles
ExistingArticles(existing_data) ==
    IF existing_data.exists THEN existing_data.articles ELSE <<>>

\* Line 514: existing_urls, the URLs of the existing articles that have one
ExistingUrls(existing_articles) ==
    {existing_articles[i].url : i \in 1..Len(existing_articles)} \ {""}

\* NewUniqueArticles looking at the existing URLs only
RECURSIVE NewArticlesNotExisting(_, _, _, _)
NewArticlesNotExisting(new_articles, existing_urls, new_urls, i) ==
    IF i > Len(new_articles) THEN <<>>
    ELSE LET url == new_articles[i].url
         IN  IF url # "" /\ url \notin existing_urls
             THEN <<new_articles[i]>>
                  \o NewArticlesNotExisting(new_articles, existing_urls,
                                            new_urls \cup {url}, i + 1)
             ELSE NewArticlesNotExisting(new_articles, existing_urls, new_urls, i + 1)

\* Lines 518-528: new_unique_articles, from article i on
RECURSIVE NewUniqueArticles(_, _, _, _)
NewUniqueArticles(new_articles, existing_urls, new_urls, i) ==
    IF i > Len(new_articles) THEN <<>>
    ELSE LET url == new_articles[i].url
         IN  IF url # "" /\ url \notin existing_urls /\ url \notin new_urls
             THEN <<new_articles[i]>>
                  \o NewUniqueArticles(new_articles, existing_urls,
                                       new_urls \cup {url}, i + 1)
             ELSE NewUniqueArticles(new_articles, existing_urls, new_urls, i + 1)

\* merge_labeled_urls(new_articles, existing_file, output_file)
MergeLabeledUrls ==
    /\ labeled_pc = "start"
    /\ LET existing_articles == ExistingArticles(existing_labeled)
           existing_urls == ExistingUrls(existing_articles)
           new_unique_articles == NewUniqueArticles(new_labeled, existing_urls, {}, 1)
           merged_articles == existing_articles \o new_unique_articles
       IN  merged_labeled' =
               [exists |-> TRUE,
                total_urls |-> Len(merged_articles),
                is_checkpoint |-> FALSE,
                articles |-> merged_articles,
                category_counts |-> CategoryCounts(<<>>, merged_articles, 1)]
    /\ labeled_pc' = "returned"
    /\ UNCHANGED <<existing_labeled, new_labeled>>
    /\ UNCHANGED <<labelerVars, trainVars, mergeVars, urlVars, normVars>>
    /\ UNCHANGED <<relabelVars, labelVars, otherVars>>

InitLabeledUrls ==
    /\ existing_labeled \in {NoFile}
           \cup {[exists |-> TRUE, articles |-> l] :
                    l \in Lists(LabeledUrlKinds, MaxExisting)}
    /\ new_labeled \in Lists(LabeledUrlKinds, MaxNew)
    /\ merged_labeled = NoFile
    /\ labeled_pc = "start"

InitMergeLabeledUrls ==
    InitLabeler /\ IdleTrain /\ IdleMerge /\ IdleUrls /\ IdleNormalize
    /\ IdleRelabel /\ IdleLabel /\ InitLabeledUrls /\ IdleOther

NextLabeledUrls == MergeLabeledUrls

SpecLabeledUrls == InitMergeLabeledUrls /\ [][NextLabeledUrls]_vars

\* The articles the merge added after the existing ones
AddedArticles ==
    SubSeq(merged_labeled.articles,
           Len(ExistingArticles(existing_labeled)) + 1,
           Len(merged_labeled.articles))

\* C20: merge_labeled_urls never adds a new article whose URL is already in
\* the existing file or earlier in the same batch, so a batch made only of
\* URLs of the existing file leaves the article count unchanged; the
\* existing articles come first, unchanged and in their order, and
\* total_urls is the number of merged articles.
C20_MergeAddsNoDuplicateUrl ==
    labeled_pc = "returned" =>
        LET existing_articles == ExistingArticles(existing_labeled)
            existing_urls == {existing_articles[i].url : i \in 1..Len(existing_articles)}
        IN  /\ Len(merged_labeled.articles) >= Len(existing_articles)
            /\ SubSeq(merged_labeled.articles, 1, Len(existing_articles))
                   = existing_articles
            /\ \A k \in 1..Len(AddedArticles) :
                  /\ AddedArticles[k].url \notin existing_urls
                  /\ \A l \in 1..(k - 1) : AddedArticles[l].url # AddedArticles[k].url
                  /\ \E j \in 1..Len(new_labeled) : new_labeled[j] = AddedArticles[k]
            /\ (\A j \in 1..Len(new_labeled) : new_labeled[j].url \in existing_urls) =>
                  Len(merged_labeled.articles) = Len(existing_articles)
            /\ merged_labeled.total_urls = Len(merged_labeled.articles)

\* A merge of a batch of two different articles of one new URL into a file
\* of two articles: only the first of the two is added
C20_Witness ==
    /\ labeled_pc = "returned"
    /\ Len(ExistingArticles(existing_labeled)) = 2
    /\ Len(new_labeled) = 2
    /\ new_labeled[1].url = new_labeled[2].url
    /\ new_labeled[1].url # ""
    /\ new_labeled[1] # new_labeled[2]
    /\ Len(AddedArticles) = 1
    /\ AddedArticles[1] = new_labeled[1]
    /\ merged_labeled.total_urls = 3

----------------------------------------------------------------------------
(* label_news_urls and label_left_json (label_news_categories.py).  The two *)
(* drivers differ in file names only: both load the URLs, hand them to      *)
(* label_urls with a checkpoint callback, and save what label_urls returns. *)
(* The timestamp labeled_at of an article is left out.                      *)

MaxNewsUrls == 3

NewsUrls == {u_first, u_second}

\* What extract_category returns for a page: None when the page could not
\* be fetched, else a category or 'unknown'
ExtractOutcomes == {"", "sport", "unknown"}

NewsParamChoices ==
    [start_index : {0, 1}, limited : {FALSE}, limit : {0},
     checkpoint_interval : {1, 2}]
    \cup [start_index : {0, 1}, limited : {TRUE}, limit : {2},
          checkpoint_interval : {1, 2}]

\* Lines 357-363: urls[start_index:start_index + limit] or urls[start_index:]
UrlsToProcess(urls, p) ==
    IF p.limited THEN UpTo(From(urls, p.start_index), p.limit)
    ELSE From(urls, p.start_index)

\* Lines 738 and 633: checkpoints are used when limit is None or beyond the interval
UseCheckpoints(p) == ~p.limited \/ p.limit > p.checkpoint_interval

\* Lines 387-391: article_data
ArticleData(url, category) ==
    [url |-> url, category |-> IF category # "" THEN category ELSE "unknown"]

\* save_labeled_urls(labeled_articles, output_file, input_file, is_checkpoint)
SaveLabeledUrls(articles, is_checkpoint) ==
    [exists |-> TRUE,
     total_urls |-> Len(articles),
     is_checkpoint |-> is_checkpoint,
     articles |-> articles,
     category_counts |-> CategoryCounts(<<>>, articles, 1)]

\* Lines 699-713: the URLs are loaded; nothing is labelled when there is none
LabelNewsLoad ==
    /\ news_pc = "start"
    /\ news_pc' = IF news_urls = <<>> THEN "returned" ELSE "loop"
    /\ UNCHANGED <<news_urls, news_params, news_labeled, news_result,
                   news_checkpoints, news_output>>
    /\ UNCHANGED <<labelerVars, trainVars, mergeVars, urlVars, normVars>>
    /\ UNCHANGED <<relabelVars, labelVars, labeledUrlVars>>
    /\ UNCHANGED <<scrapeVars, crawlVars>>

\* Lines 377-409: one turn of the loop of label_urls, with its checkpoint
LabelUrlsStep ==
    /\ news_pc = "loop"
    /\ Len(news_labeled) < Len(UrlsToProcess(news_urls, news_params))
    /\ \E category \in ExtractOutcomes :
         LET url == UrlsToProcess(news_urls, news_params)[Len(news_labeled) + 1]
             labeled_articles == Append(news_labeled, ArticleData(url, category))
         IN  /\ news_labeled' = labeled_articles
             /\ news_checkpoints' =
                    IF /\ UseCheckpoints(news_params)
                       /\ Len(labeled_articles) % news_params.checkpoint_interval = 0
                    THEN Append(news_checkpoints, Len(labeled_articles))
                    ELSE news_checkpoints
    /\ UNCHANGED <<news_urls, news_params, news_result, news_output, news_pc>>
    /\ UNCHANGED <<labelerVars, trainVars, mergeVars, urlVars, normVars>>
    /\ UNCHANGED <<relabelVars, labelVars, labeledUrlVars>>
    /\ UNCHANGED <<scrapeVars, crawlVars>>

\* Lines 411, 741-747 and 761-764: label_urls returns its list, the driver
\* binds it and saves the final results
LabelUrlsReturn ==
    /\ news_pc = "loop"
    /\ Len(news_labeled) = Len(UrlsToProcess(news_urls, news_params))
    /\ news_result' = news_labeled
    /\ news_output' = SaveLabeledUrls(news_labeled, FALSE)
    /\ news_pc' = "returned"
    /\ UNCHANGED <<news_urls, news_params, news_labeled, news_checkpoints>>
    /\ UNCHANGED <<labelerVars, trainVars, mergeVars, urlVars, normVars>>
    /\ UNCHANGED <<relabelVars, labelVars, labeledUrlVars>>
    /\ UNCHANGED <<scrapeVars, crawlVars>>

\* Lines 748-758 and 642-653: a KeyboardInterrupt raised inside label_urls
\* unwinds to the handler of the driver, which sees the driver's own
\* labeled_articles: the assignment of line 741 has not happened
LabelNewsInterrupt ==
    /\ news_pc = "loop"
    /\ IF Len(news_result) > 0
       THEN /\ news_output' = SaveLabeledUrls(news_result, FALSE)
            /\ news_pc' = "returned"
       ELSE /\ news_output' = news_output
            /\ news_pc' = "raised"
    /\ UNCHANGED <<news_urls, news_params, news_labeled, news_result,
                   news_checkpoints>>
    /\ UNCHANGED <<labelerVars, trainVars, mergeVars, urlVars, normVars>>
    /\ UNCHANGED <<relabelVars, labelVars, labeledUrlVars>>
    /\ UNCHANGED <<scrapeVars, crawlVars>>

InitNews ==
    /\ news_urls \in Lists(NewsUrls, MaxNewsUrls)
    /\ news_params \in NewsParamChoices
    /\ news_labeled = <<>> /\ news_result = <<>>
    /\ news_checkpoints = <<>>
    /\ news_output = NoFile /\ news_pc = "start"

InitLabelNews ==
    InitLabeler /\ IdleTrain /\ IdleMerge /\ IdleUrls /\ IdleNormalize
    /\ IdleRelabel /\ IdleLabel /\ IdleLabeledUrls /\ InitNews /\ IdleScrape /\ IdleCrawl

NextNews == LabelNewsLoad \/ LabelUrlsStep \/ LabelUrlsReturn \/ LabelNewsInterrupt

SpecNews == InitLabelNews /\ [][NextNews]_vars

\* C22: when the driver is interrupted after label_urls labelled at least
\* one URL, the articles labelled so far are in the output file once the
\* driver is left.
C22_InterruptSavesPartialResults ==
    (news_pc \in {"returned", "raised"} /\ Len(news_labeled) > 0) =>
        /\ news_output.exists
        /\ news_output.articles = news_labeled

----------------------------------------------------------------------------
(* scrape_news_articles (scrape_news_articles.py).  The text of a scraped   *)
(* article is left out: an object of result_articles is its label.          *)

MaxScrape == 3

\* The articles of url_labeled.json: with or without a URL
ScrapeKinds == {
    [url |-> u_first,  category |-> "sport"],
    [url |-> u_second, category |-> "unknown"],
    [url |-> "",       category |-> "business"] }

\* What scraper.scrape_article_text(url) does: it returns a text, returns
\* None (no page, or under 50 characters of content), or raises
ScrapeOutcomes == {"text", "None", "raise"}

ScrapeParamChoices ==
    [start_index : {0, 1}, limited : {FALSE}, limit : {0},
     checkpoint_interval : {1, 2}]
    \cup [start_index : {0}, limited : {TRUE}, limit : {2},
          checkpoint_interval : {1, 2}]

\* Lines 148-158: the start_index and limit slices
ArticlesToScrape(articles, p) ==
    LET started == IF p.start_index > 0 THEN From(articles, p.start_index)
                   ELSE articles
    IN  IF p.limited THEN UpTo(started, p.limit) ELSE started

\* Lines 171-181: save_checkpoint writes result_articles to a new file
SaveCheckpoint(files, articles, in_loop) ==
    Append(files, [number |-> Len(files) + 1, articles |-> articles,
                   in_loop |-> in_loop])

\* Lines 217-221: the checkpoint test at the end of a turn of the loop
CheckpointDue(articles, p) ==
    Len(articles) > 0 /\ Len(articles) % p.checkpoint_interval = 0

\* Lines 137-165: the file is loaded and sliced
ScrapeLoad ==
    /\ scrape_pc = "start"
    /\ scrape_articles' = ArticlesToScrape(scrape_input, scrape_params)
    /\ scrape_at' = 1
    /\ scrape_pc' = "loop"
    /\ UNCHANGED <<scrape_input, scrape_params, result_articles, tally,
                   checkpoint_files, scrape_output>>
    /\ UNCHANGED <<labelerVars, trainVars, mergeVars, urlVars, normVars>>
    /\ UNCHANGED <<relabelVars, labelVars, labeledUrlVars, newsVars, crawlVars>>

\* Lines 186-225: one turn of the loop
ScrapeStep ==
    /\ scrape_pc = "loop"
    /\ scrape_at <= Len(scrape_articles)
    /\ LET article == scrape_articles[scrape_at]
       IN  IF article.url = ""
           THEN \* lines 190-192: failed, continue
                /\ tally' = [tally EXCEPT !.failed = @ + 1]
                /\ UNCHANGED <<result_articles, checkpoint_files>>
           ELSE \E text \in ScrapeOutcomes :
                  CASE text = "raise" ->
                         \* lines 213-216: failed, continue
                         /\ tally' = [tally EXCEPT !.failed = @ + 1]
                         /\ UNCHANGED <<result_articles, checkpoint_files>>
                    [] text = "None" ->
                         \* lines 210-212, then the checkpoint test
                         /\ tally' = [tally EXCEPT !.failed = @ + 1]
                         /\ UNCHANGED result_articles
                         /\ checkpoint_files' =
                                IF CheckpointDue(result_articles, scrape_params)
                                THEN SaveCheckpoint(checkpoint_files,
                                                    result_articles, TRUE)
                                ELSE checkpoint_files
                    [] text = "text" ->
                         \* lines 201-209, then the checkpoint test
                         /\ tally' = [tally EXCEPT !.successful = @ + 1]
                         /\ result_articles' =
                                Append(result_articles, [label |-> article.category])
                         /\ checkpoint_files' =
                                IF CheckpointDue(result_articles', scrape_params)
                                THEN SaveCheckpoint(checkpoint_files,
                                                    result_articles', TRUE)
                                ELSE checkpoint_files
    /\ scrape_at' = scrape_at + 1
    /\ UNCHANGED <<scrape_input, scrape_params, scrape_articles,
                   scrape_output, scrape_pc>>
    /\ UNCHANGED <<labelerVars, trainVars, mergeVars, urlVars, normVars>>
    /\ UNCHANGED <<relabelVars, labelVars, labeledUrlVars, newsVars, crawlVars>>

\* Lines 227-233: a KeyboardInterrupt in the loop saves one more checkpoint
ScrapeInterrupt ==
    /\ scrape_pc = "loop"
    /\ scrape_at <= Len(scrape_articles)
    /\ checkpoint_files' =
           IF result_articles # <<>>
           THEN SaveCheckpoint(checkpoint_files, result_articles, FALSE)
           ELSE checkpoint_files
    /\ scrape_pc' = "interrupted"
    /\ UNCHANGED <<scrape_input, scrape_params, scrape_articles,
                   result_articles, tally, scrape_output, scrape_at>>
    /\ UNCHANGED <<labelerVars, trainVars, mergeVars, urlVars, normVars>>
    /\ UNCHANGED <<relabelVars, labelVars, labeledUrlVars, newsVars, crawlVars>>

\* Lines 235-239: the array is written to the output file
ScrapeWrite ==
    /\ scrape_pc = "loop"
    /\ scrape_at > Len(scrape_articles)
    /\ scrape_output' = [exists |-> TRUE, articles |-> result_articles]
    /\ scrape_pc' = "returned"
    /\ UNCHANGED <<scrape_input, scrape_params, scrape_articles,
                   result_articles, tally, checkpoint_files, scrape_at>>
    /\ UNCHANGED <<labelerVars, trainVars, mergeVars, urlVars, normVars>>
    /\ UNCHANGED <<relabelVars, labelVars, labeledUrlVars, newsVars, crawlVars>>

InitScrape ==
    /\ scrape_input \in Lists(ScrapeKinds, MaxScrape)
    /\ scrape_params \in ScrapeParamChoices
    /\ scrape_articles = <<>> /\ result_articles = <<>>
    /\ tally = NoTally /\ checkpoint_files = <<>>
    /\ scrape_output = NoFile /\ scrape_at = 0 /\ scrape_pc = "start"

InitScrapeNews ==
    InitLabeler /\ IdleTrain /\ IdleMerge /\ IdleUrls /\ IdleNormalize
    /\ IdleRelabel /\ IdleLabel /\ IdleLabeledUrls /\ IdleNews /\ InitScrape
    /\ IdleCrawl

NextScrape == ScrapeLoad \/ ScrapeStep \/ ScrapeInterrupt \/ ScrapeWrite

SpecScrape == InitScrapeNews /\ [][NextScrape]_vars

\* The checkpoint files the loop wrote (not the one of the interrupt handler)
LoopCheckpoints == SelectSeq(checkpoint_files, LAMBDA f : f.in_loop)

\* C23: during the loop one checkpoint is written each time the number of
\* scraped articles reaches a new multiple of checkpoint_interval: no two
\* loop checkpoints hold the same number of articles.
C23_OneCheckpointPerMultiple ==
    \A i, j \in 1..Len(LoopCheckpoints) :
        i # j => Len(LoopCheckpoints[i].articles) # Len(LoopCheckpoints[j].articles)

----------------------------------------------------------------------------
(* The crawl loop of BBCNewsURLCollector.collect_urls_from_news             *)
(* (bbc_news_url_collector.py) and of                                       *)
(* BBCSportURLCollector.collect_urls_from_category                          *)
(* (bbc_sport_url_collector.py).  The two loops differ in the pages they    *)
(* start from and in the patterns that make a link an article or a page to  *)
(* follow; the line numbers below are those of the news collector unless    *)
(* said otherwise.  A cleaned URL is a number: pages are 1..MaxPages, article URLs   *)
(* are 1..MaxArticleUrls.  A link of a fetched page is an article link, a   *)
(* link the first loop over the links follows (pagination, deeper paths,    *)
(* archives), or a link only the later loops follow (next-page and dated    *)
(* links).                                                                  *)

MaxPages == 51
MaxArticleUrls == 2
MaxLinks == 2

\* Line 143: the sampling interval; line 152: the number of unchanged
\* intervals that stops the crawl
SampleEvery == 10
StableIntervals == 3

Pages == 1..MaxPages
ArticleUrls == 1..MaxArticleUrls
MaxUrlsChoices == {1, 2}

\* Line 120 (news) and line 146 of the sport collector: the start pages
StartPages(c) == IF c = "news" THEN <<1, 2>> ELSE <<1>>

\* The links a page can hold: to articles, back to the first page (itself,
\* for the first page), and to the next page
LinksOf(page) ==
    {[kind |-> "article", target |-> a] : a \in ArticleUrls}
    \cup {[kind |-> k, target |-> q] :
             k \in {"page", "later"},
             q \in {1, page + 1} \cap Pages}

\* What self.get_page(current_page) gives: None, or the links of the page
\* in the order of the document
FetchOutcomes(page) ==
    {[soup |-> FALSE, links |-> <<>>]}
    \cup {[soup |-> TRUE, links |-> l] : l \in Lists(LinksOf(page), MaxLinks)}

\* The rule stopping at the second unchanged interval
StabilityAfterTwo(last, unchanged, current_url_count) ==
    IF last # -1
    THEN IF current_url_count = last
         THEN [last |-> last, unchanged |-> unchanged + 1,
               stop |-> unchanged + 1 >= StableIntervals - 1]
         ELSE [last |-> current_url_count, unchanged |-> 0, stop |-> FALSE]
    ELSE [last |-> current_url_count, unchanged |-> unchanged, stop |-> FALSE]

\* Lines 147-160: the stability rule at a multiple of 10 pages
Stability(last, unchanged, current_url_count) ==
    IF last # -1
    THEN IF current_url_count = last
         THEN [last |-> last, unchanged |-> unchanged + 1,
               stop |-> unchanged + 1 >= StableIntervals]
         ELSE [last |-> current_url_count, unchanged |-> 0, stop |-> FALSE]
    ELSE [last |-> current_url_count, unchanged |-> unchanged, stop |-> FALSE]

\* A page is queued whether or not it is in pages_checked
FollowAgain(st, page) ==
    [st EXCEPT !.pages_to_check = Append(@, page),
               !.pages_checked = @ \cup {page}]

\* Lines 203-218, 234-236, 251-253: a page not in pages_checked is queued
Follow(st, page) ==
    IF page \notin st.pages_checked
    THEN [st EXCEPT !.pages_to_check = Append(@, page),
                    !.pages_checked = @ \cup {page}]
    ELSE st

\* Lines 190-191: an article URL is added to the set
AddArticleUrl(st, url) == [st EXCEPT !.article_urls = @ \cup {url}]

\* The first loop without its tests of the limit
RECURSIVE FindEveryArticleLink(_, _, _, _)
FindEveryArticleLink(links, i, st, max) ==
    IF i > Len(links) THEN st
    ELSE LET link == links[i]
             added == IF link.kind = "article"
                      THEN AddArticleUrl(st, link.target) ELSE st
         IN  FindEveryArticleLink(
                 links, i + 1,
                 IF link.kind = "page" THEN Follow(added, link.target)
                 ELSE added,
                 max)

\* Lines 171-218: the first loop over the links, left at the limit
RECURSIVE FindArticleLinks(_, _, _, _)
FindArticleLinks(links, i, st, max) ==
    IF i > Len(links) \/ Cardinality(st.article_urls) >= max THEN st
    ELSE LET link == links[i]
             added == IF link.kind = "article"
                      THEN AddArticleUrl(st, link.target) ELSE st
         IN  IF Cardinality(added.article_urls) >= max THEN added
             ELSE FindArticleLinks(
                      links, i + 1,
                      IF link.kind = "page" THEN Follow(added, link.target)
                      ELSE added,
                      max)

\* Lines 220-253: the loops over the next-page and the dated links
RECURSIVE FindLaterLinks(_, _, _)
FindLaterLinks(links, i, st) ==
    IF i > Len(links) THEN st
    ELSE FindLaterLinks(links, i + 1,
                        IF links[i].kind = "later"
                        THEN Follow(st, links[i].target) ELSE st)

\* The page is put back on the queue
RetryAfterNoSoup(queue, current_page) == Append(queue, current_page)

\* Lines 164-166: after get_page gave None the loop continues
AfterNoSoup(queue, current_page) == queue

\* Lines 117-131: the locals before the loop
CrawlStart ==
    /\ crawl_pc = "start"
    /\ article_urls' = {}
    /\ pages_to_check' = StartPages(collector)
    /\ pages_checked' = {StartPages(collector)[i] :
                            i \in 1..Len(StartPages(collector))}
    /\ page_num' = 0
    /\ last_url_count_at_interval' = -1
    /\ consecutive_unchanged_intervals' = 0
    /\ crawl_pc' = "loop"
    /\ UNCHANGED <<collector, max_urls, pages_fetched, soup_failed, samples>>
    /\ UNCHANGED <<labelerVars, trainVars, mergeVars, urlVars, normVars>>
    /\ UNCHANGED <<relabelVars, labelVars, labeledUrlVars, newsVars, scrapeVars>>

\* Line 134: the while test fails
CrawlEmpty ==
    /\ pages_to_check = <<>>
    /\ crawl_pc' = "empty"
    /\ UNCHANGED <<article_urls, pages_to_check, pages_checked, page_num,
                   last_url_count_at_interval,
                   consecutive_unchanged_intervals, pages_fetched,
                   soup_failed, samples>>

\* Lines 136-138: the limit is reached at the head of a turn
CrawlLimit ==
    /\ pages_to_check # <<>>
    /\ Cardinality(article_urls) >= max_urls
    /\ crawl_pc' = "limit"
    /\ UNCHANGED <<article_urls, pages_to_check, pages_checked, page_num,
                   last_url_count_at_interval,
                   consecutive_unchanged_intervals, pages_fetched,
                   soup_failed, samples>>

\* Lines 140-259: a page is taken, the count is sampled at a multiple of
\* 10 pages, and the page is fetched unless the stability rule stops
CrawlPage ==
    /\ pages_to_check # <<>>
    /\ Cardinality(article_urls) < max_urls
    /\ LET current_page == Head(pages_to_check)
           rest == Tail(pages_to_check)
           sampled == (page_num + 1) % SampleEvery = 0
           current_url_count == Cardinality(article_urls)
           rule == IF sampled
                   THEN Stability(last_url_count_at_interval,
                                  consecutive_unchanged_intervals,
                                  current_url_count)
                   ELSE [last |-> last_url_count_at_interval,
                         unchanged |-> consecutive_unchanged_intervals,
                         stop |-> FALSE]
       IN  /\ page_num' = page_num + 1
           /\ samples' = IF sampled THEN Append(samples, current_url_count)
                         ELSE samples
           /\ last_url_count_at_interval' = rule.last
           /\ consecutive_unchanged_intervals' = rule.unchanged
           /\ IF rule.stop
              THEN /\ pages_to_check' = rest
                   /\ crawl_pc' = "stable"
                   /\ UNCHANGED <<article_urls, pages_checked, pages_fetched,
                                  soup_failed>>
              ELSE \E page \in FetchOutcomes(current_page) :
                     /\ pages_fetched' = Append(pages_fetched, current_page)
                     /\ soup_failed' = (soup_failed \/ ~page.soup)
                     /\ IF ~page.soup
                        THEN /\ pages_to_check' = AfterNoSoup(rest, current_page)
                             /\ UNCHANGED <<article_urls, pages_checked, crawl_pc>>
                        ELSE \E st \in {FindLaterLinks(
                                           page.links, 1,
                                           FindArticleLinks(
                                               page.links, 1,
                                               [article_urls |-> article_urls,
                                                pages_to_check |-> rest,
                                                pages_checked |-> pages_checked],
                                               max_urls))} :
                               /\ article_urls' = st.article_urls
                               /\ pages_to_check' = st.pages_to_check
                               /\ pages_checked' = st.pages_checked
                               /\ crawl_pc' =
                                      IF Cardinality(st.article_urls) >= max_urls
                                      THEN "limit" ELSE "loop"

\* Lines 134-259: one turn of the crawl loop
CrawlTurn ==
    /\ crawl_pc = "loop"
    /\ (CrawlEmpty \/ CrawlLimit \/ CrawlPage)
    /\ UNCHANGED <<collector, max_urls>>
    /\ UNCHANGED <<labelerVars, trainVars, mergeVars, urlVars, normVars>>
    /\ UNCHANGED <<relabelVars, labelVars, labeledUrlVars, newsVars, scrapeVars>>

\* Lines 262-281: a KeyboardInterrupt in the loop is raised again
CrawlInterrupt ==
    /\ crawl_pc = "loop"
    /\ crawl_pc' = "interrupted"
    /\ UNCHANGED <<collector, max_urls, article_urls, pages_to_check,
                   pages_checked, page_num, last_url_count_at_interval,
                   consecutive_unchanged_intervals, pages_fetched,
                   soup_failed, samples>>
    /\ UNCHANGED <<labelerVars, trainVars, mergeVars, urlVars, normVars>>
    /\ UNCHANGED <<relabelVars, labelVars, labeledUrlVars, newsVars, scrapeVars>>

InitCrawl ==
    /\ collector \in {"news", "sport"}
    /\ max_urls \in MaxUrlsChoices
    /\ article_urls = {} /\ pages_to_check = <<>> /\ pages_checked = {}
    /\ page_num = 0
    /\ last_url_count_at_interval = -1
    /\ consecutive_unchanged_intervals = 0
    /\ pages_fetched = <<>> /\ soup_failed = FALSE /\ samples = <<>>
    /\ crawl_pc = "start"

InitCollector ==
    InitLabeler /\ IdleTrain /\ IdleMerge /\ IdleUrls /\ IdleNormalize
    /\ IdleRelabel /\ IdleLabel /\ IdleLabeledUrls /\ IdleNews /\ IdleScrape
    /\ InitCrawl

NextCrawl == CrawlStart \/ CrawlTurn \/ CrawlInterrupt

SpecCrawl == InitCollector /\ [][NextCrawl]_vars

\* The crawl step is the program's own: a started crawl goes on while no
\* interrupt ends it
SpecCrawlFair == SpecCrawl /\ WF_vars(CrawlStart) /\ WF_vars(CrawlTurn)

Range(seq) == {seq[i] : i \in 1..Len(seq)}

NoRepeat(seq) == Cardinality(Range(seq)) = Len(seq)

\* How many samples at the end of the sequence equal the sample before them
RECURSIVE UnchangedAtEnd(_)
UnchangedAtEnd(seq) ==
    IF Len(seq) >= 2 /\ seq[Len(seq)] = seq[Len(seq) - 1]
    THEN 1 + UnchangedAtEnd(SubSeq(seq, 1, Len(seq) - 1))
    ELSE 0

\* C25: the set of collected article URLs never holds more than max_urls
\* URLs, and once it holds max_urls URLs no further page is fetched.
C25_NeverMoreThanMaxUrls ==
    [][/\ Cardinality(article_urls') <= max_urls'
       /\ Cardinality(article_urls) >= max_urls =>
              pages_fetched' = pages_fetched]_vars

\* A crawl that ended at the limit of 2 URLs with pages left on its queue
C25_Witness ==
    /\ crawl_pc = "limit" /\ max_urls = 2
    /\ Cardinality(article_urls) = 2
    /\ pages_to_check # <<>> /\ Len(pages_fetched) >= 2

\* C26: the count is sampled each time the page counter reaches a multiple
\* of 10; the crawl stops on account of stability exactly at the third
\* sample in a row that equals the sample before it, and the count of
\* unchanged intervals is the number of samples in a row, up to the last,
\* that equal the sample before them (0 after a sample that differs).
C26_StopsAtThirdUnchangedInterval ==
    crawl_pc # "start" =>
        /\ Len(samples) = page_num \div SampleEvery
        /\ consecutive_unchanged_intervals = UnchangedAtEnd(samples)
        /\ crawl_pc = "stable" <=> UnchangedAtEnd(samples) >= StableIntervals
        /\ UnchangedAtEnd(samples) <= StableIntervals

\* A crawl stopped by the rule at page 50, after the sample of page 20
\* differed from the sample of page 10
C26_Witness ==
    /\ crawl_pc = "stable" /\ page_num = 50
    /\ samples[1] # samples[2]

\* C29: no page is fetched twice: a page is appended to pages_to_check only
\* when it is not in pages_checked, which only grows and holds every page
\* of pages_to_check; the queue and the fetched pages hold no page twice
\* and no page of the queue has been fetched.
C29_NoPageFetchedTwice ==
    [][/\ pages_checked \subseteq pages_checked'
       /\ Range(pages_to_check') \subseteq pages_checked'
       /\ \A page \in Range(pages_to_check') \ Range(pages_to_check) :
              page \notin pages_checked
       /\ NoRepeat(pages_to_check') /\ NoRepeat(pages_fetched')
       /\ Range(pages_to_check') \cap Range(pages_fetched') = {}]_vars

\* A crawl of the news collector after three fetches, with pages on its
\* queue and more pages known than fetched
C29_Witness ==
    /\ collector = "news" /\ crawl_pc = "loop"
    /\ Len(pages_fetched) >= 3 /\ pages_to_check # <<>>
    /\ Cardinality(pages_checked) > Len(pages_fetched)

\* C30: the crawl loop eventually ends, and it ends with pages_to_check
\* empty, with max_urls reached or with the stability rule fired (or by an
\* interrupt); no page is fetched again, whether its fetch failed or not.
C30_CrawlTerminates ==
    /\ <>(crawl_pc \in {"empty", "limit", "stable", "interrupted"})
    /\ [](/\ crawl_pc = "empty" => pages_to_check = <<>>
          /\ crawl_pc = "limit" => Cardinality(article_urls) >= max_urls
          /\ crawl_pc = "stable" =>
                 consecutive_unchanged_intervals >= StableIntervals
          /\ NoRepeat(pages_fetched))

\* A crawl that ended on an empty queue after a fetch failed
C30_Witness ==
    /\ crawl_pc = "empty" /\ soup_failed
    /\ Len(pages_fetched) >= 3

============================================================================
